---- MODULE Spec2Model ----
(***************************************************************************)
(* EventWhisper: the filter / normalize / project pipeline of              *)
(* eventwhisper.evtxio.evtxio and the normalizers of eventwhisper.utils.   *)
(*                                                                         *)
(* Text is modelled character by character: a Python str is a sequence of  *)
(* one-character strings, so that strip, lower, split and the substring    *)
(* test are computed as Python computes them.  Python values are tagged    *)
(* records [k |-> kind, v |-> payload].                                    *)
(***************************************************************************)
EXTENDS Integers, Sequences, FiniteSets, TLC

\* ------------------------------------------------------------------ bounds
\* The longest record source a decoder yields.
MaxRecords == 3
\* eventwhisper.utils.config (imported at evtxio.py:11) is the deployment's
\* configuration: the default and ceiling of results_limit and of scan_limit.
\* The model runs with small ceilings.
RESULTS_LIMIT == 2
SCAN_LIMIT == 3

\* ------------------------------------------------------------ characters
\* Characters that cannot be written inside a TLA+ string are named atoms.
BACKTICK == "BACKTICK"
DQUOTE == "\""

UPPER == <<"A","B","C","D","E","F","G","H","I","J","K","L","M",
           "N","O","P","Q","R","S","T","U","V","W","X","Y","Z">>
LOWER == <<"a","b","c","d","e","f","g","h","i","j","k","l","m",
           "n","o","p","q","r","s","t","u","v","w","x","y","z">>
DIGITS == <<"0","1","2","3","4","5","6","7","8","9">>
WHITESPACE == {" ", "\t", "\n", "\r"}

\* str.lower / str.upper on one character (ASCII letters).
LowerChar(c) ==
    IF \E i \in 1..26 : UPPER[i] = c
    THEN LOWER[CHOOSE i \in 1..26 : UPPER[i] = c]
    ELSE c
UpperChar(c) ==
    IF \E i \in 1..26 : LOWER[i] = c
    THEN UPPER[CHOOSE i \in 1..26 : LOWER[i] = c]
    ELSE c

IsDigit(c) == \E i \in 1..10 : DIGITS[i] = c
DigitVal(c) == (CHOOSE i \in 1..10 : DIGITS[i] = c) - 1

\* ---------------------------------------------------------------- str ops
SetMin(S) == CHOOSE x \in S : \A y \in S : x <= y
SetMax(S) == CHOOSE x \in S : \A y \in S : x >= y

StrLower(s) == [i \in 1..Len(s) |-> LowerChar(s[i])]
StrUpper(s) == [i \in 1..Len(s) |-> UpperChar(s[i])]

\* str.strip()
StrStrip(s) ==
    LET keep == {i \in 1..Len(s) : s[i] \notin WHITESPACE}
    IN  IF keep = {} THEN <<>> ELSE SubSeq(s, SetMin(keep), SetMax(keep))

\* str.lstrip("+-")
LStripSigns(s) ==
    LET keep == {i \in 1..Len(s) : s[i] \notin {"+", "-"}}
    IN  IF keep = {} THEN <<>> ELSE SubSeq(s, SetMin(keep), Len(s))

StartsWith(s, p) == Len(s) >= Len(p) /\ SubSeq(s, 1, Len(p)) = p
EndsWith(s, p) == Len(s) >= Len(p) /\ SubSeq(s, Len(s) - Len(p) + 1, Len(s)) = p

\* Python's `sub in s` on strings.
StrIn(sub, s) ==
    \E i \in 0..(Len(s) - Len(sub)) : SubSeq(s, i + 1, i + Len(sub)) = sub

\* `c in s` for one character.
HasChar(s, c) == \E i \in 1..Len(s) : s[i] = c

\* str.isdigit() (ASCII digits).
IsDigitStr(s) == Len(s) > 0 /\ \A i \in 1..Len(s) : IsDigit(s[i])

RECURSIVE DigitsToNat(_)
DigitsToNat(s) ==
    IF s = <<>> THEN 0
    ELSE 10 * DigitsToNat(SubSeq(s, 1, Len(s) - 1)) + DigitVal(s[Len(s)])

RECURSIVE NatToDigits(_)
NatToDigits(n) ==
    IF n < 10 THEN <<DIGITS[n + 1]>>
    ELSE NatToDigits(n \div 10) \o <<DIGITS[(n % 10) + 1]>>

\* str(n) for an int.
IntToStr(n) == IF n < 0 THEN <<"-">> \o NatToDigits(0 - n) ELSE NatToDigits(n)

\* int(s) / int(s, 10): surrounding whitespace, one optional sign, digits.
\* (Digit-group underscores are not part of the texts of the model.)
IntParses(s) ==
    LET t == StrStrip(s)
        body == IF Len(t) > 0 /\ t[1] \in {"+", "-"} THEN Tail(t) ELSE t
    IN  IsDigitStr(body)
IntParse(s) ==
    LET t == StrStrip(s)
    IN  IF t[1] = "-" THEN 0 - DigitsToNat(Tail(t))
        ELSE IF t[1] = "+" THEN DigitsToNat(Tail(t))
        ELSE DigitsToNat(t)

\* str.split(sep) for a one-character separator: always at least one part.
RECURSIVE StrSplit(_, _)
StrSplit(s, sep) ==
    IF ~HasChar(s, sep) THEN <<s>>
    ELSE LET i == SetMin({j \in 1..Len(s) : s[j] = sep})
         IN  <<SubSeq(s, 1, i - 1)>> \o StrSplit(SubSeq(s, i + 1, Len(s)), sep)

\* str.replace(old, new) for one-character old and new.
StrReplaceChar(s, old, new) == [i \in 1..Len(s) |-> IF s[i] = old THEN new ELSE s[i]]

\* ---------------------------------------------------------- Python values
PyNone == [k |-> "none"]
PyBool(b) == [k |-> "bool", v |-> b]
PyInt(n) == [k |-> "int", v |-> n]
\* A float is its integer part and the digits of its fraction.
PyFloat(whole, frac) == [k |-> "float", v |-> <<whole, frac>>]
PyStr(s) == [k |-> "str", v |-> s]
PyList(xs) == [k |-> "list", v |-> xs]
\* A dict is its items in insertion order: << <<key, value>>, ... >>.
PyDict(items) == [k |-> "dict", v |-> items]
\* A datetime: local wall time t (thousandths of a minute), aware or naive,
\* and for an aware one its UTC offset in the same unit.
PyDatetime(t, aware, off) == [k |-> "datetime", t |-> t, aware |-> aware, off |-> off]

IsNone(x) == x.k = "none"
\* isinstance(x, int): bool is a subclass of int.
IsInstanceInt(x) == x.k \in {"int", "bool"}
\* The numeric value of an int or bool.
IntOf(x) == IF x.k = "bool" THEN (IF x.v THEN 1 ELSE 0) ELSE x.v

DictHas(d, key) == \E i \in 1..Len(d.v) : d.v[i][1] = key
DictGet(d, key) == d.v[CHOOSE i \in 1..Len(d.v) : d.v[i][1] = key][2]

\* ------------------------------------------- normalize_wrapping_quotes.py
\* The typographic pairs of lines 6-9 are named: "LDQUO" is U+201C, "RDQUO"
\* U+201D, "LSQUO" U+2018, "RSQUO" U+2019, "LAQUO" U+00AB, "RAQUO" U+00BB,
\* "LSAQUO" U+2039, "RSAQUO" U+203A.
QUOTE_PAIRS == << <<DQUOTE, DQUOTE>>, <<"'", "'">>, <<BACKTICK, BACKTICK>>,
                  <<"LDQUO", "RDQUO">>, <<"LSQUO", "RSQUO">>, <<"LAQUO", "RAQUO">>,
                  <<"LSAQUO", "RSAQUO">> >>

\* ClosesPair with the last character compared with the opening mark.
ClosesPair_SameMark(first, last) ==
    (\E i \in 1..Len(QUOTE_PAIRS) : QUOTE_PAIRS[i][1] = first) /\ last = first

\* _QUOTE_PAIRS.get(first) is truthy and equals last.
ClosesPair(first, last) ==
    \E i \in 1..Len(QUOTE_PAIRS) : QUOTE_PAIRS[i][1] = first /\ QUOTE_PAIRS[i][2] = last

RECURSIVE UnwrapLoop(_)
UnwrapLoop(s) ==
    IF Len(s) >= 2 /\ ClosesPair(s[1], s[Len(s)])
    THEN UnwrapLoop(StrStrip(SubSeq(s, 2, Len(s) - 1)))
    ELSE s

normalize_wrapping_quotes(s) == UnwrapLoop(StrStrip(s))

\* ------------------------------------------------------ normalize_value.py
normalize_int(value, default) ==
    IF IsNone(value) THEN default
    ELSE IF IsInstanceInt(value)
         THEN (IF IntOf(value) > 0 THEN value ELSE PyNone)
    ELSE IF value.k = "str"
         THEN LET s == StrStrip(normalize_wrapping_quotes(value.v))
              IN  IF ~IntParses(s) THEN PyNone
                  ELSE IF IntParse(s) > 0 THEN PyInt(IntParse(s)) ELSE PyNone
    ELSE PyNone

\* ------------------------------------------------------------------- json
\* json.dumps(x, ensure_ascii=False): separators ", " and ": ".  The texts of
\* the model hold no character that JSON escapes (quote, backslash, control).
RECURSIVE JsonDumps(_)
RECURSIVE JsonDumpsItems(_, _, _)
JsonDumpsItems(xs, i, isDict) ==
    IF i > Len(xs) THEN <<>>
    ELSE (IF i > 1 THEN <<",", " ">> ELSE <<>>)
         \o (IF isDict
             THEN <<DQUOTE>> \o xs[i][1] \o <<DQUOTE, ":", " ">> \o JsonDumps(xs[i][2])
             ELSE JsonDumps(xs[i]))
         \o JsonDumpsItems(xs, i + 1, isDict)
JsonDumps(x) ==
    CASE x.k = "none" -> <<"n","u","l","l">>
      [] x.k = "bool" -> (IF x.v THEN <<"t","r","u","e">> ELSE <<"f","a","l","s","e">>)
      [] x.k = "int" -> IntToStr(x.v)
      [] x.k = "float" -> IntToStr(x.v[1]) \o <<".">> \o x.v[2]
      [] x.k = "str" -> <<DQUOTE>> \o x.v \o <<DQUOTE>>
      [] x.k = "list" -> <<"[">> \o JsonDumpsItems(x.v, 1, FALSE) \o <<"]">>
      [] x.k = "dict" -> <<"{">> \o JsonDumpsItems(x.v, 1, TRUE) \o <<"}">>

\* json.loads(s): a recursive-descent reader.  Each reader returns
\* [ok, val, pos]: whether a value was read at index i, the value, and the
\* index after it.
JsonFail == [ok |-> FALSE, val |-> PyNone, pos |-> 0]
JsonOk(val, pos) == [ok |-> TRUE, val |-> val, pos |-> pos]

RECURSIVE JsonSkipWs(_, _)
JsonSkipWs(s, i) ==
    IF i <= Len(s) /\ s[i] \in WHITESPACE THEN JsonSkipWs(s, i + 1) ELSE i

RECURSIVE DigitRunEnd(_, _)
\* The index after the run of digits that starts at i.
DigitRunEnd(s, i) ==
    IF i <= Len(s) /\ IsDigit(s[i]) THEN DigitRunEnd(s, i + 1) ELSE i

JsonReadLiteral(s, i, word, val) ==
    IF i + Len(word) - 1 <= Len(s) /\ SubSeq(s, i, i + Len(word) - 1) = word
    THEN JsonOk(val, i + Len(word))
    ELSE JsonFail

JsonReadString(s, i) ==
    LET ends == {j \in (i + 1)..Len(s) : s[j] = DQUOTE}
    IN  IF ends = {} THEN JsonFail
        ELSE JsonOk(PyStr(SubSeq(s, i + 1, SetMin(ends) - 1)), SetMin(ends) + 1)

JsonReadNumber(s, i) ==
    LET neg == s[i] = "-"
        d0 == IF neg THEN i + 1 ELSE i
        d1 == DigitRunEnd(s, d0)
        whole == DigitsToNat(SubSeq(s, d0, d1 - 1))
        signed == IF neg THEN 0 - whole ELSE whole
    IN  IF d1 = d0 THEN JsonFail
        ELSE IF s[d0] = "0" /\ d1 > d0 + 1 THEN JsonFail
        ELSE IF d1 <= Len(s) /\ s[d1] = "."
             THEN LET f1 == DigitRunEnd(s, d1 + 1)
                  IN  IF f1 = d1 + 1 THEN JsonFail
                      ELSE JsonOk(PyFloat(signed, SubSeq(s, d1 + 1, f1 - 1)), f1)
        ELSE JsonOk(PyInt(signed), d1)

RECURSIVE JsonReadValue(_, _)
RECURSIVE JsonReadElements(_, _, _)
RECURSIVE JsonReadMembers(_, _, _)

\* After "[" or after a ",": the remaining elements, acc the ones read.
JsonReadElements(s, i, acc) ==
    LET r == JsonReadValue(s, JsonSkipWs(s, i))
        j == JsonSkipWs(s, r.pos)
    IN  IF ~r.ok \/ j > Len(s) THEN JsonFail
        ELSE IF s[j] = "]" THEN JsonOk(PyList(Append(acc, r.val)), j + 1)
        ELSE IF s[j] = "," THEN JsonReadElements(s, j + 1, Append(acc, r.val))
        ELSE JsonFail

\* After "{" or after a ",": the remaining members.  A repeated key keeps
\* its first position and takes the last value, as a Python dict does.
JsonReadMembers(s, i, acc) ==
    LET k0 == JsonSkipWs(s, i)
        key == IF k0 <= Len(s) /\ s[k0] = DQUOTE THEN JsonReadString(s, k0) ELSE JsonFail
        c == JsonSkipWs(s, key.pos)
        r == JsonReadValue(s, JsonSkipWs(s, c + 1))
        j == JsonSkipWs(s, r.pos)
        hit == {n \in 1..Len(acc) : acc[n][1] = key.val.v}
        acc2 == IF hit = {} THEN Append(acc, <<key.val.v, r.val>>)
                ELSE [n \in 1..Len(acc) |-> IF n \in hit THEN <<acc[n][1], r.val>> ELSE acc[n]]
    IN  IF ~key.ok \/ c > Len(s) THEN JsonFail
        ELSE IF s[c] # ":" THEN JsonFail
        ELSE IF ~r.ok \/ j > Len(s) THEN JsonFail
        ELSE IF s[j] = "}" THEN JsonOk(PyDict(acc2), j + 1)
        ELSE IF s[j] = "," THEN JsonReadMembers(s, j + 1, acc2)
        ELSE JsonFail

JsonReadValue(s, i) ==
    IF i > Len(s) THEN JsonFail
    ELSE IF s[i] = "{"
         THEN LET j == JsonSkipWs(s, i + 1)
              IN  IF j <= Len(s) /\ s[j] = "}" THEN JsonOk(PyDict(<<>>), j + 1)
                  ELSE JsonReadMembers(s, i + 1, <<>>)
    ELSE IF s[i] = "["
         THEN LET j == JsonSkipWs(s, i + 1)
              IN  IF j <= Len(s) /\ s[j] = "]" THEN JsonOk(PyList(<<>>), j + 1)
                  ELSE JsonReadElements(s, i + 1, <<>>)
    ELSE IF s[i] = DQUOTE THEN JsonReadString(s, i)
    ELSE IF s[i] = "-" \/ IsDigit(s[i]) THEN JsonReadNumber(s, i)
    ELSE IF s[i] = "t" THEN JsonReadLiteral(s, i, <<"t","r","u","e">>, PyBool(TRUE))
    ELSE IF s[i] = "f" THEN JsonReadLiteral(s, i, <<"f","a","l","s","e">>, PyBool(FALSE))
    ELSE IF s[i] = "n" THEN JsonReadLiteral(s, i, <<"n","u","l","l">>, PyNone)
    ELSE JsonFail

\* json.loads(s): [ok |-> FALSE] stands for the exception it raises.
JsonLoads(s) ==
    LET r == JsonReadValue(s, JsonSkipWs(s, 1))
    IN  IF r.ok /\ JsonSkipWs(s, r.pos) = Len(s) + 1 THEN r ELSE JsonFail

\* ------------------------------------------------------ normalize_lists.py
\* repr(x) and str(x).  The strings of the model hold no quote character
\* that repr would escape.
RECURSIVE PyRepr(_)
RECURSIVE PyReprItems(_, _, _)
PyReprItems(xs, i, isDict) ==
    IF i > Len(xs) THEN <<>>
    ELSE (IF i > 1 THEN <<",", " ">> ELSE <<>>)
         \o (IF isDict
             THEN <<"'">> \o xs[i][1] \o <<"'", ":", " ">> \o PyRepr(xs[i][2])
             ELSE PyRepr(xs[i]))
         \o PyReprItems(xs, i + 1, isDict)
PyRepr(x) ==
    CASE x.k = "none" -> <<"N","o","n","e">>
      [] x.k = "bool" -> (IF x.v THEN <<"T","r","u","e">> ELSE <<"F","a","l","s","e">>)
      [] x.k = "int" -> IntToStr(x.v)
      [] x.k = "float" -> IntToStr(x.v[1]) \o <<".">> \o x.v[2]
      [] x.k = "str" -> <<"'">> \o x.v \o <<"'">>
      [] x.k = "list" -> <<"[">> \o PyReprItems(x.v, 1, FALSE) \o <<"]">>
      [] x.k = "dict" -> <<"{">> \o PyReprItems(x.v, 1, TRUE) \o <<"}">>
PyStrOf(x) == IF x.k = "str" THEN x.v ELSE PyRepr(x)

\* _is_seq: an iterable that is not str/bytes (the model passes lists).
is_seq(value) == value.k = "list"

RECURSIVE DropEmpty(_)
DropEmpty(parts) ==
    IF parts = <<>> THEN <<>>
    ELSE (IF StrStrip(Head(parts)) = <<>> THEN <<>> ELSE <<StrStrip(Head(parts))>>)
         \o DropEmpty(Tail(parts))

split_multi(s) == DropEmpty(StrSplit(StrReplaceChar(s, ";", ","), ","))

\* Lines 22-28: the parsed value when it is a list, else None.
loaded_array(r) == IF r.ok /\ r.val.k = "list" THEN r.val ELSE PyNone

\* The list, or PyNone.
maybe_load_json_array(s) ==
    IF StartsWith(s, <<"[">>) /\ EndsWith(s, <<"]">>)
    THEN loaded_array(JsonLoads(s))
    ELSE PyNone

\* First-seen order, no duplicates: the seen/out pair of both normalizers.
RECURSIVE Dedup(_, _)
Dedup(xs, acc) ==
    IF xs = <<>> THEN acc
    ELSE Dedup(Tail(xs),
               IF \E i \in 1..Len(acc) : acc[i] = Head(xs) THEN acc ELSE Append(acc, Head(xs)))

\* normalize_int_list.handle_token, lines 75-83: one part after its quotes
\* and blanks are removed.
int_handle_part(p_norm) ==
    IF p_norm # <<>> /\ IsDigitStr(LStripSigns(p_norm)) /\ IntParses(p_norm)
    THEN <<IntParse(p_norm)>> ELSE <<>>

RECURSIVE int_handle_parts(_)
int_handle_parts(parts) ==
    IF parts = <<>> THEN <<>>
    ELSE int_handle_part(StrStrip(normalize_wrapping_quotes(Head(parts))))
         \o int_handle_parts(Tail(parts))

\* Lines 73 and 133: parts = _split_multi(s) or [s].
parts_or_self(s, parts) == IF parts = <<>> THEN <<s>> ELSE parts

RECURSIVE int_handle_token(_)
RECURSIVE int_handle_tokens(_)
int_handle_tokens(toks) ==
    IF toks = <<>> THEN <<>>
    ELSE int_handle_token(Head(toks)) \o int_handle_tokens(Tail(toks))

\* Lines 66-83: a JSON array is handled item by item, anything else is split.
int_handle_array(s, arr) ==
    IF ~IsNone(arr) THEN int_handle_tokens(arr.v)
    ELSE int_handle_parts(parts_or_self(s, split_multi(s)))

\* Lines 62-83: the text of a token that is no int.
int_handle_text(s) ==
    IF s = <<>> THEN <<>> ELSE int_handle_array(s, maybe_load_json_array(s))

\* normalize_int_list.handle_token: the numbers one token adds, in order.
int_handle_token(tok) ==
    IF tok.k = "int" THEN <<tok.v>>
    ELSE int_handle_text(StrStrip(normalize_wrapping_quotes(PyStrOf(tok))))

\* A list of integers (not of Python values).
normalize_int_list(value) ==
    IF IsNone(value) THEN <<>>
    ELSE IF is_seq(value) THEN Dedup(int_handle_tokens(value.v), <<>>)
    ELSE Dedup(int_handle_token(value), <<>>)

RECURSIVE str_handle_token(_)
RECURSIVE str_handle_tokens(_)
str_handle_tokens(toks) ==
    IF toks = <<>> THEN <<>>
    ELSE str_handle_token(Head(toks)) \o str_handle_tokens(Tail(toks))

\* Lines 127-135: a JSON array is handled item by item, anything else is split.
str_handle_array(s, arr) ==
    IF ~IsNone(arr) THEN str_handle_tokens(arr.v)
    ELSE parts_or_self(s, split_multi(s))

\* Lines 124-135: the text of a token.
str_handle_text(s) ==
    IF s = <<>> THEN <<>> ELSE str_handle_array(s, maybe_load_json_array(s))

\* normalize_str_list.handle_token: the texts one token passes to add_token.
str_handle_token(tok) ==
    str_handle_text(StrStrip(normalize_wrapping_quotes(PyStrOf(tok))))

\* normalize_str_list.add_token, lines 115-117, before de-duplication.
add_token(s, lowercase) ==
    IF s = <<>> THEN <<>> ELSE <<IF lowercase THEN StrLower(s) ELSE s>>

RECURSIVE add_tokens(_, _)
add_tokens(txts, lowercase) ==
    IF txts = <<>> THEN <<>>
    ELSE add_token(StrStrip(normalize_wrapping_quotes(Head(txts))), lowercase)
         \o add_tokens(Tail(txts), lowercase)

\* A list of texts.
normalize_str_list(value, lowercase) ==
    IF IsNone(value) THEN <<>>
    ELSE IF is_seq(value) THEN Dedup(add_tokens(str_handle_tokens(value.v), lowercase), <<>>)
    ELSE Dedup(add_tokens(str_handle_token(value), lowercase), <<>>)

\* -------------------------------------------------- normalize_timestamp.py
\* The calendar is scaled down: a date is one digit (the day), a time of day
\* is HH:MM with an optional fraction of a minute.  The shapes of the source
\* keep their structure:
\*     'YYYY-MM-DD'                         ->  d
\*     'YYYY-MM-DDTHH:MM:SS[.ffffff][+HH:MM]' ->  dTHH:MM[.fff][+HH:MM]
\*     'YYYY-MM-DD HH:MM:SS[.f]'            ->  d HH:MM[.f]
\* An instant is a number of thousandths of a minute.
MINUTE == 1000
DateTicks(d) == d * 24 * 60 * MINUTE

\* HH:MM at index i: the minutes, or -1.
ReadHHMM(s, i) ==
    IF i + 4 <= Len(s) /\ IsDigit(s[i]) /\ IsDigit(s[i + 1]) /\ s[i + 2] = ":"
       /\ IsDigit(s[i + 3]) /\ IsDigit(s[i + 4])
    THEN LET h == DigitsToNat(SubSeq(s, i, i + 1))
             m == DigitsToNat(SubSeq(s, i + 3, i + 4))
         IN  IF h <= 23 /\ m <= 59 THEN h * 60 + m ELSE -1
    ELSE -1

\* The fraction digits f (1 to 3 of them) as thousandths.
FracTicks(f) == DigitsToNat(f \o SubSeq(<<"0", "0", "0">>, 1, 3 - Len(f)))

\* datetime.fromisoformat(s): the datetime, or PyNone for ValueError.  A
\* fraction must have its full width (3 digits here, 3 or 6 in Python).
FromIsoFormat(s) ==
    IF Len(s) = 0 \/ ~IsDigit(s[1]) THEN PyNone
    ELSE IF Len(s) = 1 THEN PyDatetime(DateTicks(DigitVal(s[1])), FALSE, 0)
    ELSE LET hm == ReadHHMM(s, 3)
             hasFrac == Len(s) >= 8 /\ s[8] = "."
             fEnd == IF hasFrac THEN DigitRunEnd(s, 9) ELSE 8
             frac == IF hasFrac THEN SubSeq(s, 9, fEnd - 1) ELSE <<>>
             local == DateTicks(DigitVal(s[1])) + hm * MINUTE
                      + (IF hasFrac THEN FracTicks(frac) ELSE 0)
             off == ReadHHMM(s, fEnd + 1)
         IN  IF hm < 0 THEN PyNone
             ELSE IF hasFrac /\ Len(frac) # 3 THEN PyNone
             ELSE IF fEnd = Len(s) + 1 THEN PyDatetime(local, FALSE, 0)
             ELSE IF s[fEnd] \in {"+", "-"} /\ Len(s) = fEnd + 5 /\ off >= 0
                  THEN PyDatetime(local, TRUE,
                                  IF s[fEnd] = "-" THEN 0 - off * MINUTE ELSE off * MINUTE)
             ELSE PyNone

\* datetime.strptime(s, fmt) for the three formats the source uses.
FMT_SPACE_FRAC == "%Y-%m-%d %H:%M:%S.%f"
FMT_SPACE == "%Y-%m-%d %H:%M:%S"
FMT_DATE == "%Y-%m-%d"
Strptime(s, fmt) ==
    IF Len(s) = 0 \/ ~IsDigit(s[1]) THEN PyNone
    ELSE IF fmt = FMT_DATE
         THEN (IF Len(s) = 1 THEN PyDatetime(DateTicks(DigitVal(s[1])), FALSE, 0) ELSE PyNone)
    ELSE LET hm == ReadHHMM(s, 3)
             local == DateTicks(DigitVal(s[1])) + hm * MINUTE
             frac == SubSeq(s, 9, Len(s))
         IN  IF Len(s) < 7 \/ s[2] # " " \/ hm < 0 THEN PyNone
             ELSE IF fmt = FMT_SPACE
                  THEN (IF Len(s) = 7 THEN PyDatetime(local, FALSE, 0) ELSE PyNone)
             ELSE IF Len(s) >= 9 /\ Len(s) <= 11 /\ s[8] = "." /\ IsDigitStr(frac)
                  THEN PyDatetime(local + FracTicks(frac), FALSE, 0)
             ELSE PyNone

\* replace(tzinfo=utc) for a naive datetime, astimezone(utc) for an aware one.
ToUtc(dt) == IF dt.aware THEN PyDatetime(dt.t - dt.off, TRUE, 0)
             ELSE PyDatetime(dt.t, TRUE, 0)

\* Lines 48-49: a trailing " UTC" is cut (s[:-4]).
strip_utc(s0) ==
    IF EndsWith(StrUpper(s0), <<" ", "U", "T", "C">>)
    THEN SubSeq(s0, 1, Len(s0) - 4) ELSE s0

\* Lines 52-53: a trailing Z becomes +00:00.
z_to_offset(s1) ==
    IF EndsWith(s1, <<"Z">>)
    THEN SubSeq(s1, 1, Len(s1) - 1) \o <<"+", "0", "0", ":", "0", "0">>
    ELSE s1

\* Lines 60-69: the strptime formats tried when fromisoformat fails.
parse_fallback(s) ==
    IF HasChar(s, " ") /\ HasChar(s, ":")
    THEN (IF HasChar(s, ".") THEN Strptime(s, FMT_SPACE_FRAC)
          ELSE Strptime(s, FMT_SPACE))
    ELSE Strptime(s, FMT_DATE)

\* Lines 56-69: fromisoformat first.
iso_or_fallback(s, iso) == IF ~IsNone(iso) THEN iso ELSE parse_fallback(s)

parse_timestamp(s) == iso_or_fallback(s, FromIsoFormat(s))

\* Lines 68-75: the fallback when nothing parsed, else the instant in UTC.
utc_or_fallback(dt, fallback) == IF IsNone(dt) THEN fallback ELSE ToUtc(dt)

normalize_timestamp(value, fallback) ==
    IF IsNone(value) THEN fallback
    ELSE IF value.k = "datetime" THEN ToUtc(value)
    ELSE IF value.k # "str" THEN fallback
    ELSE utc_or_fallback(
            parse_timestamp(z_to_offset(strip_utc(normalize_wrapping_quotes(value.v)))),
            fallback)

\* ---------------------------------------------------------------- evtxio.py
\* _get_dotted: walk the parts of the dotted path from cur.
RECURSIVE get_dotted_walk(_, _)
get_dotted_walk(cur, parts) ==
    IF parts = <<>> THEN cur
    ELSE LET part == Head(parts)
         IN  IF cur.k = "dict"
             THEN (IF DictHas(cur, part) THEN get_dotted_walk(DictGet(cur, part), Tail(parts))
                   ELSE PyNone)
             ELSE IF cur.k = "list"
             THEN (IF IsDigitStr(part) /\ DigitsToNat(part) < Len(cur.v)
                   THEN get_dotted_walk(cur.v[DigitsToNat(part) + 1], Tail(parts))
                   ELSE PyNone)
             ELSE PyNone
get_dotted(obj, dotted) == get_dotted_walk(obj, StrSplit(dotted, "."))

EVENT_ID_KEYS == << <<"#", "t", "e", "x", "t">>, <<"v", "a", "l", "u", "e">>,
                    <<"V", "a", "l", "u", "e">> >>

\* as_event_id with a wrapper mapping unwrapped once and no further.
as_event_id_OneLevel(value) ==
    LET coerce(x) ==
            IF IsNone(x) THEN PyNone
            ELSE IF IsInstanceInt(x) THEN x
            ELSE IF x.k = "str"
                 THEN (IF IntParses(x.v) THEN PyInt(IntParse(x.v)) ELSE PyNone)
            ELSE PyNone
        hit == {i \in 1..Len(EVENT_ID_KEYS) : DictHas(value, EVENT_ID_KEYS[i])}
    IN  IF value.k # "dict" THEN coerce(value)
        ELSE IF hit = {} THEN PyNone
        ELSE coerce(DictGet(value, EVENT_ID_KEYS[SetMin(hit)]))

\* _as_event_id: a Python int (or bool), or PyNone.
RECURSIVE as_event_id(_)
as_event_id(value) ==
    IF IsNone(value) THEN PyNone
    ELSE IF IsInstanceInt(value) THEN value
    ELSE IF value.k = "str"
         THEN (IF IntParses(value.v) THEN PyInt(IntParse(value.v)) ELSE PyNone)
    ELSE IF value.k = "dict"
         THEN LET hit == {i \in 1..Len(EVENT_ID_KEYS) : DictHas(value, EVENT_ID_KEYS[i])}
              IN  IF hit = {} THEN PyNone
                  ELSE as_event_id(DictGet(value, EVENT_ID_KEYS[SetMin(hit)]))
    ELSE PyNone

KEY_EVENT == <<"E", "v", "e", "n", "t">>

\* out[f] = val on a dict kept as ordered items.
DictSet(items, key, val) ==
    IF \E i \in 1..Len(items) : items[i][1] = key
    THEN [i \in 1..Len(items) |-> IF items[i][1] = key THEN <<key, val>> ELSE items[i]]
    ELSE Append(items, <<key, val>>)

\* project_fields_loop with the paths that resolve to nothing left out.
project_fields_loop_SkipMissing(data, event_root, fields, acc) ==
    LET kept == SelectSeq(fields,
                    LAMBDA f : ~IsNone(get_dotted(data, f))
                               \/ ~IsNone(get_dotted(event_root, f)))
    IN  acc \o [i \in 1..Len(kept) |->
            <<kept[i], IF IsNone(get_dotted(data, kept[i]))
                       THEN get_dotted(event_root, kept[i])
                       ELSE get_dotted(data, kept[i])>>]

RECURSIVE project_fields_loop(_, _, _, _)
project_fields_loop(data, event_root, fields, out) ==
    IF fields = <<>> THEN out
    ELSE LET f == Head(fields)
             val == get_dotted(data, f)
             val2 == IF IsNone(val) THEN get_dotted(event_root, f) ELSE val
         IN  project_fields_loop(data, event_root, Tail(fields), DictSet(out, f, val2))

project_fields(data, fields) ==
    LET event_root == IF data.k = "dict" /\ DictHas(data, KEY_EVENT)
                      THEN DictGet(data, KEY_EVENT) ELSE PyDict(<<>>)
    IN  PyDict(project_fields_loop(data, event_root, fields, <<>>))

KEY_SYSTEM == <<"S", "y", "s", "t", "e", "m">>
KEY_EVENTID == <<"E", "v", "e", "n", "t", "I", "D">>
KEY_TIMECREATED == <<"T", "i", "m", "e", "C", "r", "e", "a", "t", "e", "d">>
KEY_ATTRIBUTES == <<"#", "a", "t", "t", "r", "i", "b", "u", "t", "e", "s">>
KEY_SYSTEMTIME == <<"S", "y", "s", "t", "e", "m", "T", "i", "m", "e">>
KEY_EVENTDATA == <<"E", "v", "e", "n", "t", "D", "a", "t", "a">>
KEY_IMAGE == <<"I", "m", "a", "g", "e">>
\* "Event.System.EventID"
PATH_EVENT_ID == KEY_EVENT \o <<".">> \o KEY_SYSTEM \o <<".">> \o KEY_EVENTID
\* "Event.System.TimeCreated.#attributes.SystemTime"
PATH_SYSTEM_TIME == KEY_EVENT \o <<".">> \o KEY_SYSTEM \o <<".">> \o KEY_TIMECREATED
                    \o <<".">> \o KEY_ATTRIBUTES \o <<".">> \o KEY_SYSTEMTIME

\* _normalize_path for a str argument: the path text without its quotes.
normalize_path(p) == normalize_wrapping_quotes(p.v)

\* ------------------------------------------------------ the record sources
\* What the decoder (PyEvtxParser.records_json) yields: dicts with a "data"
\* text and a "timestamp" text; a key that is absent reads as None.
EventDoc(eid, time_created, image) ==
    PyDict(<< <<KEY_EVENT, PyDict(<<
        <<KEY_SYSTEM, PyDict(<< <<KEY_EVENTID, eid>> >> \o time_created)>>,
        <<KEY_EVENTDATA, PyDict(<< <<KEY_IMAGE, PyStr(image)>> >>)>> >>)>> >>)
TimeCreated(systime) ==
    << <<KEY_TIMECREATED, PyDict(<< <<KEY_ATTRIBUTES,
          PyDict(<< <<KEY_SYSTEMTIME, PyStr(systime)>> >>)>> >>)>> >>

\* "2T00:00Z", "3T15:11.487Z": SystemTime texts; "2 12:00.5 UTC": the shape
\* of the decoder's positional timestamp.
TIME_A == <<"2", "T", "0", "0", ":", "0", "0", "Z">>
TIME_B == <<"3", "T", "1", "5", ":", "1", "1", ".", "4", "8", "7", "Z">>
STAMP == <<"2", " ", "1", "2", ":", "0", "0", ".", "5", " ", "U", "T", "C">>

\* The records a source is made of.
\*   1  EventID 1, SystemTime day 2 00:00, Image "Cmd"
\*   2  EventID {"#text": "3"}, SystemTime day 3 15:11.487, Image "ping"
\*   3  EventID "1", no TimeCreated (time from the positional timestamp), Image "Zz"
\*   4  EventID 1, no TimeCreated and no positional timestamp
\*   5  a payload that is not JSON: {"Cmd
\*   6  no payload
POOL == <<
    [data |-> PyStr(JsonDumps(EventDoc(PyInt(1), TimeCreated(TIME_A), <<"C", "m", "d">>))),
     timestamp |-> PyStr(STAMP)],
    [data |-> PyStr(JsonDumps(EventDoc(PyDict(<< <<EVENT_ID_KEYS[1], PyStr(<<"3">>)>> >>),
                                       TimeCreated(TIME_B), <<"p", "i", "n", "g">>))),
     timestamp |-> PyStr(STAMP)],
    [data |-> PyStr(JsonDumps(EventDoc(PyStr(<<"1">>), <<>>, <<"Z", "z">>))),
     timestamp |-> PyStr(STAMP)],
    [data |-> PyStr(JsonDumps(EventDoc(PyInt(1), <<>>, <<"C", "m", "d">>))),
     timestamp |-> PyNone],
    [data |-> PyStr(<<"{", DQUOTE, "C", "m", "d">>), timestamp |-> PyStr(STAMP)],
    [data |-> PyNone, timestamp |-> PyStr(STAMP)] >>
RecordIds == 1..Len(POOL)

\* The payloads of the pool as json.loads decodes them, decoded once.
PAYLOADS ==
    [r \in RecordIds |->
        IF POOL[r].data.k = "str" THEN JsonLoads(POOL[r].data.v) ELSE JsonFail]

\* Lines 206-209: json.loads(data_str); a payload of the pool is looked up.
json_loads(s) ==
    IF \E r \in RecordIds : POOL[r].data = PyStr(s)
    THEN PAYLOADS[CHOOSE r \in RecordIds : POOL[r].data = PyStr(s)]
    ELSE JsonLoads(s)

PATH_X == <<"x">>
PATH_Y == <<"y">>
CALLS == {1, 2}

VARIABLES
    disk,             \* path -> the file there: its kind, the records read so far, its tail
    clock,            \* the wall clock (datetime.now), an instant
    args,             \* call -> the arguments it was called with
    pc,               \* call -> "off", "called", "loop", "done", "raised"
    why,              \* call -> why it ended
    path,             \* call -> the normalized path
    lim, cap,         \* call -> the effective limits
    start, end,       \* call -> the normalized bounds (a datetime or None)
    contains_lc, not_contains_lc,   \* call -> the effective keyword lists
    wanted_ids,       \* call -> the set of wanted event ids
    fields_norm,      \* call -> the field list, or None
    returned, scanned,\* call -> the counters
    pulled,           \* call -> how many records the decoder has handed over
    out               \* call -> what was yielded: <<[idx, ev], ...>>

vars == <<disk, clock, args, pc, why, path, lim, cap, start, end, contains_lc,
          not_contains_lc, wanted_ids, fields_norm, returned, scanned, pulled, out>>
filter_vars == <<path, lim, cap, start, end, contains_lc, not_contains_lc,
                 wanted_ids, fields_norm>>

\* Path.is_file()
is_file(p) == p \in DOMAIN disk /\ disk[p].kind # "missing"

Range(xs) == {xs[i] : i \in 1..Len(xs)}
RECURSIVE Without(_, _)
\* [s for s in xs if s not in overlap]
Without(xs, overlap) ==
    IF xs = <<>> THEN <<>>
    ELSE (IF Head(xs) \in overlap THEN <<>> ELSE <<Head(xs)>>) \o Without(Tail(xs), overlap)

\* drop_overlap with the shared keywords removed from the include list only.
drop_overlap_IncludeOnly(c0, n0, overlap) ==
    IF c0 # <<>> /\ n0 # <<>> /\ overlap # {}
    THEN [contains_lc |-> Without(c0, overlap), not_contains_lc |-> n0]
    ELSE [contains_lc |-> c0, not_contains_lc |-> n0]

\* Lines 164-169: both lists lose the keywords they share.
drop_overlap(c0, n0, overlap) ==
    IF c0 # <<>> /\ n0 # <<>> /\ overlap # {}
    THEN [contains_lc |-> Without(c0, overlap), not_contains_lc |-> Without(n0, overlap)]
    ELSE [contains_lc |-> c0, not_contains_lc |-> n0]

\* Lines 164-165: overlap = set(contains_lc) & set(not_contains_lc).
keyword_overlap(c0, n0) == drop_overlap(c0, n0, Range(c0) \cap Range(n0))

\* Lines 160-169: the effective include and exclude lists.
keyword_filters(contains, not_contains) ==
    keyword_overlap(normalize_str_list(contains, TRUE),
                    normalize_str_list(not_contains, TRUE))

\* swap_bounds without the swap.
swap_bounds_Never(s0, e0) == [start |-> s0, end |-> e0]

\* Lines 156-158: the bounds are swapped when both are present and reversed.
swap_bounds(s0, e0) ==
    IF ~IsNone(s0) /\ ~IsNone(e0) /\ s0.t > e0.t
    THEN [start |-> e0, end |-> s0]
    ELSE [start |-> s0, end |-> e0]

\* time_bound with a bound that is no timestamp dropped.
time_bound_Drops(x, utc_now) == IF IsNone(x) THEN PyNone ELSE normalize_timestamp(x, PyNone)

\* Lines 153-154: normalize_timestamp(x, utc_now) if x else None.
time_bound(x, utc_now) == IF IsNone(x) THEN PyNone ELSE normalize_timestamp(x, utc_now)

\* Lines 151-158.
time_bounds(a_start, a_end, utc_now) ==
    swap_bounds(time_bound(a_start, utc_now), time_bound(a_end, utc_now))

\* clamp_limit with a rejected limit replaced by the ceiling.
clamp_limit_Defaults(n, ceiling) ==
    IF IsNone(n) THEN PyInt(ceiling)
    ELSE IF IntOf(n) <= ceiling THEN n ELSE PyInt(ceiling)

\* Lines 143, 149: min(n, ceiling), or None when the limit is rejected.
clamp_limit(n, ceiling) ==
    IF IsNone(n) THEN PyNone
    ELSE IF IntOf(n) <= ceiling THEN n ELSE PyInt(ceiling)

\* Lines 139-149.
effective_limit(requested, ceiling) ==
    clamp_limit(normalize_int(requested, PyInt(ceiling)), ceiling)

Finish(c, reason) ==
    /\ pc' = [pc EXCEPT ![c] = "done"]
    /\ why' = [why EXCEPT ![c] = reason]

\* Lines 135-181 once the arguments are normalized: the early returns, the
\* locals of the loop, and the decoder opened on the file.
Prologue(c, p, l, s, tb, kw, ids, fl) ==
    IF ~is_file(p)
    THEN Finish(c, "no_file") /\ UNCHANGED filter_vars
    ELSE IF IsNone(l) \/ IsNone(s)
    THEN Finish(c, "bad_limit") /\ UNCHANGED filter_vars
    ELSE /\ path' = [path EXCEPT ![c] = p]
         /\ lim' = [lim EXCEPT ![c] = IntOf(l)]
         /\ cap' = [cap EXCEPT ![c] = IntOf(s)]
         /\ start' = [start EXCEPT ![c] = tb.start]
         /\ end' = [end EXCEPT ![c] = tb.end]
         /\ contains_lc' = [contains_lc EXCEPT ![c] = kw.contains_lc]
         /\ not_contains_lc' = [not_contains_lc EXCEPT ![c] = kw.not_contains_lc]
         /\ wanted_ids' = [wanted_ids EXCEPT ![c] = Range(ids)]
         /\ fields_norm' = [fields_norm EXCEPT ![c] = fl]
         \* PyEvtxParser(str(path)) is called outside the try block.
         /\ IF disk[p].kind = "corrupt"
            THEN pc' = [pc EXCEPT ![c] = "raised"] /\ why' = [why EXCEPT ![c] = "open_error"]
            ELSE pc' = [pc EXCEPT ![c] = "loop"] /\ UNCHANGED why

\* Lines 175-177: normalize_str_list(fields, lowercase=False) if fields is
\* not None.
field_list(fields) ==
    IF IsNone(fields) THEN PyNone ELSE PyList(normalize_str_list(fields, FALSE))

\* iter_events_from_evtx, lines 134-181: everything before the loop.
Begin(c) ==
    /\ pc[c] = "called"
    /\ Prologue(c, normalize_path(args[c].evtx_path),
                effective_limit(args[c].results_limit, RESULTS_LIMIT),
                effective_limit(args[c].scan_limit, SCAN_LIMIT),
                time_bounds(args[c].start, args[c].end, PyDatetime(clock, TRUE, 0)),
                keyword_filters(args[c].contains, args[c].not_contains),
                normalize_int_list(args[c].event_ids),
                field_list(args[c].fields))
    /\ UNCHANGED <<disk, clock, args, returned, scanned, pulled, out>>

\* A record the loop passes over with `continue`.
Skipped(v) == [verdict |-> v, ev |-> PyNone]

\* time_filter without line 221: a record with no time is yielded.
time_filter_Untimed(c, data, event_dt) ==
    IF ~IsNone(event_dt) /\ ~IsNone(start[c]) /\ event_dt.t < start[c].t
    THEN Skipped("before_start")
    ELSE IF ~IsNone(event_dt) /\ ~IsNone(end[c]) /\ event_dt.t > end[c].t
    THEN Skipped("after_end")
    ELSE [verdict |-> "yield",
          ev |-> IF ~IsNone(fields_norm[c]) /\ fields_norm[c].v # <<>>
                 THEN project_fields(data, fields_norm[c].v)
                 ELSE data]

\* time_filter with exclusive comparisons (<= and >= at lines 225 and 227).
time_filter_Exclusive(c, data, event_dt) ==
    IF IsNone(event_dt) THEN Skipped("no_time")
    ELSE IF ~IsNone(start[c]) /\ event_dt.t <= start[c].t THEN Skipped("before_start")
    ELSE IF ~IsNone(end[c]) /\ event_dt.t >= end[c].t THEN Skipped("after_end")
    ELSE [verdict |-> "yield",
          ev |-> IF ~IsNone(fields_norm[c]) /\ fields_norm[c].v # <<>>
                 THEN project_fields(data, fields_norm[c].v)
                 ELSE data]

\* Lines 221-234: the time filter, the projection and the yield.
time_filter(c, data, event_dt) ==
    IF IsNone(event_dt) THEN Skipped("no_time")
    ELSE IF ~IsNone(start[c]) /\ event_dt.t < start[c].t THEN Skipped("before_start")
    ELSE IF ~IsNone(end[c]) /\ event_dt.t > end[c].t THEN Skipped("after_end")
    ELSE [verdict |-> "yield",
          ev |-> IF ~IsNone(fields_norm[c]) /\ fields_norm[c].v # <<>>
                 THEN project_fields(data, fields_norm[c].v)
                 ELSE data]

\* event_time without the fallback to the record's own timestamp.
event_time_NoFallback(dt1, record) == dt1

\* Lines 219-221: normalize_timestamp(ts) or normalize_timestamp(record.get("timestamp")).
event_time(dt1, record) ==
    IF ~IsNone(dt1) THEN dt1 ELSE normalize_timestamp(record.timestamp, PyNone)

\* Lines 214-234: the event id filter, then the time of the event.
id_filter(c, record, data, eid) ==
    IF wanted_ids[c] # {} /\ (IsNone(eid) \/ IntOf(eid) \notin wanted_ids[c])
    THEN Skipped("id_miss")
    ELSE time_filter(c, data,
            event_time(normalize_timestamp(get_dotted(data, PATH_SYSTEM_TIME), PyNone),
                       record))

\* Lines 206-234: json.loads, then the filters on the document.
parse_payload(c, record, loaded) ==
    IF ~loaded.ok THEN Skipped("parse_error")
    ELSE id_filter(c, record, loaded.val,
                   as_event_id(get_dotted(loaded.val, PATH_EVENT_ID)))

\* keyword_filter on the payload as it is, not lowercased.
keyword_filter_CaseSensitive(c, record, data_str, lower) ==
    IF contains_lc[c] # <<>>
       /\ ~\E i \in 1..Len(contains_lc[c]) : StrIn(contains_lc[c][i], data_str)
    THEN Skipped("keyword_miss")
    ELSE IF not_contains_lc[c] # <<>>
            /\ \E i \in 1..Len(not_contains_lc[c]) : StrIn(not_contains_lc[c][i], data_str)
    THEN Skipped("keyword_hit")
    ELSE parse_payload(c, record, json_loads(data_str))

\* Lines 199-234: the keyword filters on the lowercased payload.
keyword_filter(c, record, data_str, lower) ==
    IF contains_lc[c] # <<>>
       /\ ~\E i \in 1..Len(contains_lc[c]) : StrIn(contains_lc[c][i], lower)
    THEN Skipped("keyword_miss")
    ELSE IF not_contains_lc[c] # <<>>
            /\ \E i \in 1..Len(not_contains_lc[c]) : StrIn(not_contains_lc[c][i], lower)
    THEN Skipped("keyword_hit")
    ELSE parse_payload(c, record, json_loads(data_str))

\* Lines 194-236 for one record: the verdict, and the value yielded.
Examine(c, record) ==
    IF record.data.k # "str" THEN Skipped("no_data")
    ELSE IF record.data.v = <<>> THEN Skipped("no_data")
    ELSE keyword_filter(c, record, record.data.v, StrLower(record.data.v))

\* `for record in parser.records_json()` hands over record r: the next one
\* of the file, which is read from the disk the first time a call reaches it.
Pull(c, r) ==
    LET f == disk[path[c]]
    IN  /\ pulled' = [pulled EXCEPT ![c] = @ + 1]
        /\ \/ /\ pulled[c] < Len(f.records)
              /\ r = f.records[pulled[c] + 1]
              /\ UNCHANGED disk
           \/ /\ pulled[c] = Len(f.records)
              /\ f.tail = "unread"
              /\ Len(f.records) < MaxRecords
              /\ disk' = [disk EXCEPT ![path[c]].records = Append(@, r)]

\* The decoder has no record left, or fails: what the file holds after its
\* records is read from the disk the first time a call reaches it.
AtTail(c, t) ==
    LET f == disk[path[c]]
    IN  /\ pulled[c] = Len(f.records)
        /\ \/ f.tail = t /\ UNCHANGED disk
           \/ f.tail = "unread" /\ disk' = [disk EXCEPT ![path[c]].tail = t]

\* LimitHit with the scan cap of line 186 forgotten.
LimitHit_NoCap(c) == returned[c] >= lim[c]

LimitHit(c) == scanned[c] >= cap[c] \/ returned[c] >= lim[c]

\* Line 184: the iterator is exhausted; the loop and the generator end.
Exhausted(c) ==
    /\ pc[c] = "loop"
    /\ AtTail(c, "eof")
    /\ Finish(c, "exhausted")
    /\ UNCHANGED <<clock, args, filter_vars, returned, scanned, pulled, out>>

\* DecoderRaises without the except clause of lines 237-238.
DecoderRaises_Propagates(c) ==
    /\ pc[c] = "loop"
    /\ AtTail(c, "raise")
    /\ pc' = [pc EXCEPT ![c] = "raised"]
    /\ why' = [why EXCEPT ![c] = "aborted"]
    /\ UNCHANGED <<clock, args, filter_vars, returned, scanned, pulled, out>>

\* Lines 184, 237-238: the decoder raises while the next record is pulled.
DecoderRaises(c) ==
    /\ pc[c] = "loop"
    /\ AtTail(c, "raise")
    /\ Finish(c, "aborted")
    /\ UNCHANGED <<clock, args, filter_vars, returned, scanned, pulled, out>>

\* Lines 186-190: a record is pulled and a limit is already reached.
LimitStop(c) ==
    /\ pc[c] = "loop"
    /\ LimitHit(c)
    /\ \E r \in RecordIds : Pull(c, r)
    /\ Finish(c, "limit")
    /\ UNCHANGED <<clock, args, filter_vars, returned, scanned, out>>

\* SkipRecord with the record counted only when it is emitted.
SkipRecord_Uncounted(c) ==
    /\ pc[c] = "loop"
    /\ ~LimitHit(c)
    /\ \E r \in RecordIds : Pull(c, r) /\ Examine(c, POOL[r]).verdict # "yield"
    /\ UNCHANGED <<clock, args, pc, why, filter_vars, returned, scanned, out>>

\* Lines 192-228: a record is counted and one of the filters skips it.
SkipRecord(c) ==
    /\ pc[c] = "loop"
    /\ ~LimitHit(c)
    /\ \E r \in RecordIds : Pull(c, r) /\ Examine(c, POOL[r]).verdict # "yield"
    /\ scanned' = [scanned EXCEPT ![c] = @ + 1]
    /\ UNCHANGED <<clock, args, pc, why, filter_vars, returned, out>>

\* Yield with one counter of returned records for all the calls.
Yield_Shared(c, x) ==
    /\ x.verdict = "yield"
    /\ out' = [out EXCEPT ![c] = Append(@, [idx |-> pulled[c] + 1, ev |-> x.ev])]
    /\ returned' = [d \in CALLS |-> returned[d] + 1]

\* Yield with the value put in front of the earlier ones.
Yield_Prepend(c, x) ==
    /\ x.verdict = "yield"
    /\ out' = [out EXCEPT ![c] = <<[idx |-> pulled[c] + 1, ev |-> x.ev]>> \o @]
    /\ returned' = [returned EXCEPT ![c] = @ + 1]

\* Lines 231-236: the value is yielded and counted.
Yield(c, x) ==
    /\ x.verdict = "yield"
    /\ out' = [out EXCEPT ![c] = Append(@, [idx |-> pulled[c] + 1, ev |-> x.ev])]
    /\ returned' = [returned EXCEPT ![c] = @ + 1]

\* Lines 192-236: a record is counted, passes every filter and is yielded.
YieldRecord(c) ==
    /\ pc[c] = "loop"
    /\ ~LimitHit(c)
    /\ \E r \in RecordIds : Pull(c, r) /\ Yield(c, Examine(c, POOL[r]))
    /\ scanned' = [scanned EXCEPT ![c] = @ + 1]
    /\ UNCHANGED <<clock, args, pc, why, filter_vars>>

\* get_events_from_evtx: the yielded values, each as its JSON text.
get_events_from_evtx(c) == [i \in 1..Len(out[c]) |-> JsonDumps(out[c][i].ev)]

Next ==
    \E c \in CALLS :
        \/ Begin(c)
        \/ Exhausted(c)
        \/ DecoderRaises(c)
        \/ LimitStop(c)
        \/ SkipRecord(c)
        \/ YieldRecord(c)

\* The calls made one after the other: a call begins when the calls before
\* it have returned.
InTurn(c) == \A b \in CALLS : b < c => pc[b] \in {"off", "done", "raised"}
NextInTurn ==
    \E c \in CALLS :
        \/ InTurn(c) /\ Begin(c)
        \/ Exhausted(c)
        \/ DecoderRaises(c)
        \/ LimitStop(c)
        \/ SkipRecord(c)
        \/ YieldRecord(c)

\* ------------------------------------------------------- the arguments
\* What a caller passes.  An omitted results_limit / scan_limit is the
\* parameter default, the configured ceiling.
DEFAULT_ARGS ==
    [evtx_path |-> PyStr(PATH_X), start |-> PyNone, end |-> PyNone,
     results_limit |-> PyInt(RESULTS_LIMIT), scan_limit |-> PyInt(SCAN_LIMIT),
     event_ids |-> PyNone, contains |-> PyNone, not_contains |-> PyNone,
     fields |-> PyNone]

\* x, `x`, and y where no file is.
PATH_ARGS == {PyStr(PATH_X), PyStr(<<BACKTICK, "x", BACKTICK>>), PyStr(PATH_Y)}

\* None, 1, 0, -1, "`1`", "ten", 1.5, True; the ceiling and one above it
\* are added per limit.
LIMIT_ARGS ==
    {PyNone, PyInt(1), PyInt(0), PyInt(-1), PyStr(<<BACKTICK, "1", BACKTICK>>),
     PyStr(<<"t", "e", "n">>), PyFloat(1, <<"5">>), PyBool(TRUE)}

\* "2" (day 2 00:00, the time of record 1), "`3T15:11.487+00:00`" (the time
\* of record 2), "2 12:00.5 UTC" (the time of record 3), "soon" (no
\* timestamp), and the naive datetime day 4 00:00.
BOUND_DAY2 == PyStr(<<"2">>)
BOUND_REC2 == PyStr(<<BACKTICK, "3", "T", "1", "5", ":", "1", "1", ".", "4", "8", "7",
                      "+", "0", "0", ":", "0", "0", BACKTICK>>)
BOUND_REC3 == PyStr(STAMP)
BOUND_BOGUS == PyStr(<<"s", "o", "o", "n">>)
BOUND_DAY4 == PyDatetime(DateTicks(4), FALSE, 0)
PARSEABLE_BOUNDS == {BOUND_DAY2, BOUND_REC2, BOUND_REC3, BOUND_DAY4}
TIME_ARGS == {PyNone, BOUND_BOGUS} \cup PARSEABLE_BOUNDS

\* "'cmd, ZZ'", ["PING", "Cmd"], "ping", '["ZZ", "nope"]'
KEYWORD_ARGS ==
    {PyNone,
     PyStr(<<"'", "c", "m", "d", ",", " ", "Z", "Z", "'">>),
     PyList(<<PyStr(<<"P", "I", "N", "G">>), PyStr(<<"C", "m", "d">>)>>),
     PyStr(<<"p", "i", "n", "g">>),
     PyStr(<<"[", DQUOTE, "Z", "Z", DQUOTE, ",", " ", DQUOTE, "n", "o", "p", "e", DQUOTE, "]">>)}

\* 1, "1, `3`", ["3"], "x"
ID_ARGS ==
    {PyNone, PyInt(1), PyStr(<<"1", ",", " ", BACKTICK, "3", BACKTICK>>),
     PyList(<<PyStr(<<"3">>)>>), PyStr(<<"x">>)}

\* The SystemTime path; ["Event.System.EventID", "EventData.Image", "Event.Nope"]; ""
FIELD_ARGS ==
    {PyNone, PyStr(PATH_SYSTEM_TIME),
     PyList(<<PyStr(PATH_EVENT_ID), PyStr(KEY_EVENTDATA \o <<".">> \o KEY_IMAGE),
              PyStr(KEY_EVENT \o <<".", "N", "o", "p", "e">>)>>),
     PyStr(<<>>)}

\* The calls the model makes: each family of arguments varied on its own,
\* and one call with every filter set.
ARGS ==
    {[DEFAULT_ARGS EXCEPT !.evtx_path = p] : p \in PATH_ARGS}
    \cup {[DEFAULT_ARGS EXCEPT !.results_limit = l]
            : l \in LIMIT_ARGS \cup {PyInt(RESULTS_LIMIT + 1)}}
    \cup {[DEFAULT_ARGS EXCEPT !.scan_limit = l]
            : l \in LIMIT_ARGS \cup {PyInt(SCAN_LIMIT + 1)}}
    \cup {[DEFAULT_ARGS EXCEPT !.start = s, !.end = e] : s \in TIME_ARGS, e \in TIME_ARGS}
    \cup {[DEFAULT_ARGS EXCEPT !.contains = k, !.not_contains = n]
            : k \in KEYWORD_ARGS, n \in KEYWORD_ARGS}
    \cup {[DEFAULT_ARGS EXCEPT !.event_ids = i] : i \in ID_ARGS}
    \cup {[DEFAULT_ARGS EXCEPT !.fields = f] : f \in FIELD_ARGS}
    \cup {[DEFAULT_ARGS EXCEPT !.start = BOUND_DAY2, !.end = BOUND_DAY4,
                               !.results_limit = PyInt(1),
                               !.contains = PyStr(<<"e", "v", "e", "n", "t">>),
                               !.not_contains = PyStr(<<"z", "z">>),
                               !.event_ids = PyInt(1),
                               !.fields = PyStr(PATH_EVENT_ID)]}

\* The instants datetime.now can return: day 3 00:00 and day 9 00:00.  The
\* clock matters only to a call with a bound that is no timestamp.
CLOCK == {DateTicks(3), DateTicks(9)}
Clocks(a) ==
    IF a.start = BOUND_BOGUS \/ a.end = BOUND_BOGUS THEN CLOCK ELSE {DateTicks(9)}

\* The disk: at x an event log whose records are not read yet, or a file
\* the decoder cannot open; nothing at y.
FILE_UNREAD == [kind |-> "evtx", records |-> <<>>, tail |-> "unread"]
FILE_CORRUPT == [kind |-> "corrupt", records |-> <<>>, tail |-> "unread"]
FILE_MISSING == [kind |-> "missing", records |-> <<>>, tail |-> "unread"]

InitCalls(a1, a2, second) ==
    /\ args = (1 :> a1) @@ (2 :> a2)
    /\ pc = (1 :> "called") @@ (2 :> IF second THEN "called" ELSE "off")
    /\ why = [c \in CALLS |-> "running"]
    /\ path = [c \in CALLS |-> <<>>]
    /\ lim = [c \in CALLS |-> 0]
    /\ cap = [c \in CALLS |-> 0]
    /\ start = [c \in CALLS |-> PyNone]
    /\ end = [c \in CALLS |-> PyNone]
    /\ contains_lc = [c \in CALLS |-> <<>>]
    /\ not_contains_lc = [c \in CALLS |-> <<>>]
    /\ wanted_ids = [c \in CALLS |-> {}]
    /\ fields_norm = [c \in CALLS |-> PyNone]
    /\ returned = [c \in CALLS |-> 0]
    /\ scanned = [c \in CALLS |-> 0]
    /\ pulled = [c \in CALLS |-> 0]
    /\ out = [c \in CALLS |-> <<>>]

\* One call, with any of the arguments.
Init ==
    /\ \E f \in {FILE_UNREAD, FILE_CORRUPT} :
          disk = (PATH_X :> f) @@ (PATH_Y :> FILE_MISSING)
    /\ \E a \in ARGS : InitCalls(a, DEFAULT_ARGS, FALSE) /\ clock \in Clocks(a)

Spec == Init /\ [][Next]_vars

\* Two calls on the same event log, one after the other, with the clock at
\* day 9 00:00.
InitPair(a1, a2) ==
    /\ disk = (PATH_X :> FILE_UNREAD) @@ (PATH_Y :> FILE_MISSING)
    /\ clock = DateTicks(9)
    /\ InitCalls(a1, a2, TRUE)

\* A call with bounds a and b, and the call with the two exchanged.
InitSwap ==
    \E a \in PARSEABLE_BOUNDS, b \in PARSEABLE_BOUNDS :
        InitPair([DEFAULT_ARGS EXCEPT !.start = a, !.end = b],
                 [DEFAULT_ARGS EXCEPT !.start = b, !.end = a])

SpecSwap == InitSwap /\ [][NextInTurn]_vars

\* ["zz", "CMD"]: the keywords of "'cmd, ZZ'" in another order and case.
KEYWORDS_RESPELLED == PyList(<<PyStr(<<"z", "z">>), PyStr(<<"C", "M", "D">>)>>)

\* A call with include and exclude keywords, and the call without any.
InitOverlap ==
    \E k \in KEYWORD_ARGS \ {PyNone}, n \in (KEYWORD_ARGS \ {PyNone}) \cup {KEYWORDS_RESPELLED} :
        InitPair([DEFAULT_ARGS EXCEPT !.contains = k, !.not_contains = n], DEFAULT_ARGS)

SpecOverlap == InitOverlap /\ [][NextInTurn]_vars

\* ------------------------------------------------------ two calls at once
\* Two event logs: at x a record that is not JSON, record 1 and record 2; at y
\* record 3, the record without a time, and record 1.  After its three
\* records a log ends (tail "eof") or makes the decoder fail (tail "raise").
FILE_X(tail) == [kind |-> "evtx", records |-> <<5, 1, 2>>, tail |-> tail]
FILE_Y(tail) == [kind |-> "evtx", records |-> <<3, 4, 1>>, tail |-> tail]

\* What each of the two calls may ask for.
PAIR_ARGS ==
    {[a EXCEPT !.evtx_path = PyStr(p)] :
        a \in {DEFAULT_ARGS,
                [DEFAULT_ARGS EXCEPT !.results_limit = PyInt(1)],
                [DEFAULT_ARGS EXCEPT !.scan_limit = PyInt(1)],
                [DEFAULT_ARGS EXCEPT !.contains = PyStr(<<"p", "i", "n", "g">>)],
                [DEFAULT_ARGS EXCEPT !.event_ids = PyInt(1)],
                [DEFAULT_ARGS EXCEPT !.start = BOUND_REC3],
                [DEFAULT_ARGS EXCEPT !.fields = PyStr(PATH_SYSTEM_TIME)]},
        p \in {PATH_X, PATH_Y}}

\* Both calls are made before either has taken a step; their steps then
\* interleave in any order.
InitTwo ==
    /\ \E tx \in {"eof", "raise"}, ty \in {"eof", "raise"} :
          disk = (PATH_X :> FILE_X(tx)) @@ (PATH_Y :> FILE_Y(ty))
    /\ clock = DateTicks(9)
    /\ \E a1 \in PAIR_ARGS, a2 \in PAIR_ARGS : InitCalls(a1, a2, TRUE)

SpecTwo == InitTwo /\ [][Next]_vars

\* ------------------------------------------------- the helpers called alone
\* A helper of the filter called on its own: args[c].fn names it, the other
\* fields of args[c] are its arguments, and out[c] holds what it returned.
MaxFields == 2

\* Events to project: the documents of records 1 and 2; a dict whose "Event"
\* is no dict; a list; a text.
PROJECT_EVENTS ==
    {PAYLOADS[1].val, PAYLOADS[2].val,
     PyDict(<< <<KEY_SYSTEM, PyDict(<< <<KEY_EVENTID, PyInt(7)>> >>)>>,
               <<KEY_EVENT, PyStr(<<"x">>)>> >>),
     PyList(<<PyStr(<<"a">>), PyDict(<< <<KEY_IMAGE, PyNone>> >>)>>),
     PyStr(<<"x">>)}

\* "Event.System.EventID", "System.EventID", "Event.Nope", "", "1.Image"
PROJECT_PATHS ==
    {PATH_EVENT_ID, KEY_SYSTEM \o <<".">> \o KEY_EVENTID,
     KEY_EVENT \o <<".", "N", "o", "p", "e">>, <<>>, <<"1", ".">> \o KEY_IMAGE}

\* Values for normalize_int besides LIMIT_ARGS: 5, False, "+7", "-3", " 12 ",
\* '"3"' in single quotes, "0", "", "1.5", "+", "1 2", [3].
INT_VALUES ==
    LIMIT_ARGS \cup
    {PyInt(5), PyBool(FALSE), PyStr(<<"+", "7">>), PyStr(<<"-", "3">>),
     PyStr(<<" ", "1", "2", " ">>), PyStr(<<"'", DQUOTE, "3", DQUOTE, "'">>),
     PyStr(<<"0">>), PyStr(<<>>), PyStr(<<"1", ".", "5">>), PyStr(<<"+">>),
     PyStr(<<"1", " ", "2">>), PyList(<<PyInt(3)>>)}

\* Values for normalize_str_list besides KEYWORD_ARGS: "[1],[2]", "[1],x",
\* '["a,b"]', "a;b, c", [" A ", "b", "A"], [1, "'x'"], 3, "".
STR_VALUES ==
    KEYWORD_ARGS \cup
    {PyStr(<<"[", "1", "]", ",", "[", "2", "]">>),
     PyStr(<<"[", "1", "]", ",", "x">>),
     PyStr(<<"[", DQUOTE, "a", ",", "b", DQUOTE, "]">>),
     PyStr(<<"a", ";", "b", ",", " ", "c">>),
     PyList(<<PyStr(<<" ", "A", " ">>), PyStr(<<"b">>), PyStr(<<"A">>)>>),
     PyList(<<PyInt(1), PyStr(<<"'", "x", "'">>)>>),
     PyInt(3), PyStr(<<>>)}

MaxQuoted == 5

\* Every text of up to MaxQuoted characters out of ', the typographic double
\* quotes, a and the blank.
QUOTED_TEXTS ==
    UNION {[1..n -> {"'", "LDQUO", "RDQUO", "a", " "}] : n \in 0..MaxQuoted}

MaxWrap == 2

\* Values for _as_event_id: 7, "7", "x", None, True, 1.5, [7], each inside n
\* mappings of one key out of "#text", "value", "Value" and "other".
RECURSIVE Wrapped(_)
Wrapped(n) ==
    IF n = 0
    THEN {PyInt(7), PyStr(<<"7">>), PyStr(<<"x">>), PyNone, PyBool(TRUE),
          PyFloat(1, <<"5">>), PyList(<<PyInt(7)>>)}
    ELSE {PyDict(<< <<key, v>> >>) :
            key \in Range(EVENT_ID_KEYS) \cup {<<"o", "t", "h", "e", "r">>},
            v \in Wrapped(n - 1)}

\* The same, and two mappings of two keys: {"value": "7", "#text": "x"} and
\* {"other": "x", "Value": 7}.
EVENT_ID_VALUES ==
    UNION {Wrapped(n) : n \in 0..MaxWrap}
    \cup {PyDict(<< <<EVENT_ID_KEYS[2], PyStr(<<"7">>)>>,
                    <<EVENT_ID_KEYS[1], PyStr(<<"x">>)>> >>),
          PyDict(<< <<<<"o", "t", "h", "e", "r">>, PyStr(<<"x">>)>>,
                    <<EVENT_ID_KEYS[3], PyInt(7)>> >>)}

HELPER_CALLS ==
    {[fn |-> "project_fields", data |-> d, fields |-> f]
        : d \in PROJECT_EVENTS, f \in UNION {[1..n -> PROJECT_PATHS] : n \in 0..MaxFields}}
    \cup {[fn |-> "normalize_int", value |-> v, default |-> PyInt(d)]
            : v \in INT_VALUES, d \in {9, 0}}
    \cup {[fn |-> "normalize_str_list", value |-> v, lowercase |-> l]
            : v \in STR_VALUES, l \in BOOLEAN}
    \cup {[fn |-> "normalize_wrapping_quotes", s |-> t] : t \in QUOTED_TEXTS}
    \cup {[fn |-> "as_event_id", value |-> v] : v \in EVENT_ID_VALUES}

\* One helper is called; no file is read.
InitHelpers ==
    /\ disk = (PATH_X :> FILE_UNREAD) @@ (PATH_Y :> FILE_MISSING)
    /\ clock = DateTicks(9)
    /\ \E a \in HELPER_CALLS : InitCalls(a, DEFAULT_ARGS, FALSE)

\* The helper returns v.
Return(c, v) ==
    /\ out' = [out EXCEPT ![c] = Append(@, v)]
    /\ Finish(c, "returned")
    /\ UNCHANGED <<disk, clock, args, filter_vars, returned, scanned, pulled>>

Call_project_fields(c) ==
    /\ pc[c] = "called"
    /\ args[c].fn = "project_fields"
    /\ Return(c, project_fields(args[c].data, args[c].fields))

Call_normalize_int(c) ==
    /\ pc[c] = "called"
    /\ args[c].fn = "normalize_int"
    /\ Return(c, normalize_int(args[c].value, args[c].default))

Call_normalize_str_list(c) ==
    /\ pc[c] = "called"
    /\ args[c].fn = "normalize_str_list"
    /\ Return(c, normalize_str_list(args[c].value, args[c].lowercase))

\* The list normalize_str_list returned is passed to it again, with the same
\* lowercase flag.
Again_normalize_str_list(c) ==
    /\ pc[c] = "done" /\ why[c] = "returned"
    /\ args[c].fn = "normalize_str_list"
    /\ out' = [out EXCEPT ![c] =
                  Append(@, normalize_str_list(
                                PyList([i \in 1..Len(out[c][1]) |-> PyStr(out[c][1][i])]),
                                args[c].lowercase))]
    /\ why' = [why EXCEPT ![c] = "returned_again"]
    /\ UNCHANGED <<disk, clock, args, pc, filter_vars, returned, scanned, pulled>>

\* normalize_wrapping_quotes step by step; out[c] holds the values s takes.
\* Line 15: s = s.strip().
Call_normalize_wrapping_quotes(c) ==
    /\ pc[c] = "called"
    /\ args[c].fn = "normalize_wrapping_quotes"
    /\ out' = [out EXCEPT ![c] = <<StrStrip(args[c].s)>>]
    /\ pc' = [pc EXCEPT ![c] = "unwrapping"]
    /\ UNCHANGED <<disk, clock, args, why, filter_vars, returned, scanned, pulled>>

\* Line 16-19: the loop goes on while s has two characters or more and its
\* last character closes the pair its first one opens.
StillWrapped(s) == Len(s) >= 2 /\ ClosesPair(s[1], s[Len(s)])

\* Lines 20-21: s = s[1:-1].strip(); continue.
UnwrapLayer(c) ==
    /\ pc[c] = "unwrapping"
    /\ StillWrapped(out[c][Len(out[c])])
    /\ out' = [out EXCEPT ![c] =
                  Append(@, StrStrip(SubSeq(@[Len(@)], 2, Len(@[Len(@)]) - 1)))]
    /\ UNCHANGED <<disk, clock, args, pc, why, filter_vars, returned, scanned, pulled>>

\* Lines 22-23: break; return s.
ReturnUnwrapped(c) ==
    /\ pc[c] = "unwrapping"
    /\ ~StillWrapped(out[c][Len(out[c])])
    /\ Finish(c, "returned")
    /\ UNCHANGED <<disk, clock, args, filter_vars, returned, scanned, pulled, out>>

Call_as_event_id(c) ==
    /\ pc[c] = "called"
    /\ args[c].fn = "as_event_id"
    /\ Return(c, as_event_id(args[c].value))

NextHelpers ==
    \E c \in CALLS :
        \/ Call_project_fields(c)
        \/ Call_normalize_int(c)
        \/ Call_normalize_str_list(c)
        \/ Again_normalize_str_list(c)
        \/ Call_normalize_wrapping_quotes(c)
        \/ UnwrapLayer(c)
        \/ ReturnUnwrapped(c)
        \/ Call_as_event_id(c)

SpecHelpers == InitHelpers /\ [][NextHelpers]_vars

\* ----------------------------------------------------- reading a run back
\* The records call c has pulled so far, in arrival order (ids into POOL).
Source(c) == SubSeq(disk[path[c]].records, 1, pulled[c])

\* The arrival positions of the records call c has yielded, in yield order.
OutIdx(c) == [i \in 1..Len(out[c]) |-> out[c][i].idx]

Take(n, xs) == SubSeq(xs, 1, SetMin({n, Len(xs)}))

RECURSIVE Ascending(_)
\* The numbers of S in increasing order.
Ascending(S) == IF S = {} THEN <<>> ELSE <<SetMin(S)>> \o Ascending(S \ {SetMin(S)})

\* Record r carries a payload that json.loads accepts.
Parses(r) ==
    /\ POOL[r].data.k = "str"
    /\ POOL[r].data.v # <<>>
    /\ json_loads(POOL[r].data.v).ok

Document(r) == json_loads(POOL[r].data.v).val

\* The time of record r as lines 218-221 determine it, or None.
EventTime(r) ==
    event_time(normalize_timestamp(get_dotted(Document(r), PATH_SYSTEM_TIME), PyNone),
               POOL[r])

Timed(r) == Parses(r) /\ ~IsNone(EventTime(r))

\* Call c was made with no filter and no projection.
NoConstraints(c) ==
    /\ IsNone(args[c].start) /\ IsNone(args[c].end)
    /\ IsNone(args[c].event_ids)
    /\ IsNone(args[c].contains) /\ IsNone(args[c].not_contains)
    /\ IsNone(args[c].fields)

InLoop(c) == pc[c] = "loop" \/ (pc[c] = "done" /\ why[c] \in {"exhausted", "limit", "aborted"})

\* ------------------------------------------------------------------- C1
\* The limit a caller asked for, after normalize_int: a positive number.
Requested(value, ceiling) == IntOf(normalize_int(value, PyInt(ceiling)))

C1_Bounded(c) ==
    /\ lim[c] = SetMin({Requested(args[c].results_limit, RESULTS_LIMIT), RESULTS_LIMIT})
    /\ cap[c] = SetMin({Requested(args[c].scan_limit, SCAN_LIMIT), SCAN_LIMIT})
    /\ scanned[c] <= cap[c]
    /\ returned[c] <= lim[c]
    /\ Len(out[c]) = returned[c]

C1_Stopped(c) ==
    (pc[c] = "loop" /\ (scanned[c] >= cap[c] \/ returned[c] >= lim[c]))
        => /\ scanned'[c] = scanned[c]
           /\ returned'[c] = returned[c]
           /\ out'[c] = out[c]

\* C1: in every state of the scan loop, scanned is at most the effective
\* scan limit and returned is at most the effective result limit, each
\* effective limit being min(requested limit, configured ceiling); and once
\* either counter has reached its limit, no step processes or yields a
\* further record.
C1_LimitsBound ==
    /\ [](\A c \in CALLS : InLoop(c) => C1_Bounded(c))
    /\ [][\A c \in CALLS : C1_Stopped(c)]_vars

\* A call that asked for more results than the ceiling and stopped at the
\* ceiling, the next record pulled and dropped.
C1_Witness ==
    /\ args[1].results_limit = PyInt(RESULTS_LIMIT + 1)
    /\ pc[1] = "done" /\ why[1] = "limit"
    /\ returned[1] = RESULTS_LIMIT
    /\ pulled[1] = scanned[1] + 1

\* ------------------------------------------------------------------- C2
\* The positions a completed unconstrained scan should have yielded, were
\* every record with a parseable payload returned.
C2_EveryParseable(c) ==
    Take(lim[c], Ascending({i \in 1..pulled[c] : Parses(Source(c)[i])}))

\* The same, for the records among the first scan_limit whose payload parses
\* and whose time can be determined.
C2_EveryTimed(c) ==
    Take(lim[c], Ascending({i \in 1..SetMin({pulled[c], cap[c]}) : Timed(Source(c)[i])}))

C2_Completed(c) ==
    pc[c] = "done" /\ why[c] \in {"exhausted", "limit"} /\ NoConstraints(c)

\* C2 as the specification states it: with no constraints the filter returns
\* every record of the source whose payload parses, up to result_limit, in
\* arrival order.
C2_AsStated ==
    \A c \in CALLS : C2_Completed(c) => OutIdx(c) = C2_EveryParseable(c)

\* C2, amended: with no constraints the filter returns, in arrival order and
\* up to result_limit, every record among the first scan_limit records of
\* the source whose payload parses and whose time can be determined; each
\* is returned as its parsed payload.
C2_Amended ==
    \A c \in CALLS :
        C2_Completed(c) =>
            /\ OutIdx(c) = C2_EveryTimed(c)
            /\ \A i \in 1..Len(out[c]) : out[c][i].ev = Document(Source(c)[out[c][i].idx])

\* A complete scan of two records that returned the second one only: the
\* first has no payload that parses.
C2_Witness ==
    /\ C2_Completed(1) /\ why[1] = "exhausted"
    /\ pulled[1] = 2 /\ OutIdx(1) = <<2>>
    /\ ~Parses(Source(1)[1])

\* ------------------------------------------------------------------- C3
\* The positions of the records among the first n of call c that survive
\* its filters.
Survivors(c, n) == {i \in 1..n : Examine(c, POOL[Source(c)[i]]).verdict = "yield"}

C3_Subsequence(c) ==
    /\ Len(out[c]) = returned[c]
    /\ Len(get_events_from_evtx(c)) = returned[c]
    /\ \A i \in 1..Len(out[c]) :
          /\ out[c][i].idx \in 1..scanned[c]
          /\ i > 1 => out[c][i - 1].idx < out[c][i].idx
    /\ pc[c] = "done" => Range(OutIdx(c)) = Survivors(c, scanned[c])

\* The record a step of call c has just pulled, and what the filters make of it.
C3_Pulled(c) == Examine(c, POOL[disk'[path[c]].records[pulled'[c]]])

C3_Unbuffered(c) ==
    IF scanned'[c] = scanned[c] THEN out'[c] = out[c]
    ELSE /\ scanned'[c] = scanned[c] + 1
         /\ pulled'[c] = pulled[c] + 1
         /\ IF C3_Pulled(c).verdict = "yield"
            THEN out'[c] = Append(out[c], [idx |-> pulled'[c], ev |-> C3_Pulled(c).ev])
            ELSE out'[c] = out[c]

\* C3: what get_events_from_evtx returns is a subsequence of the decoder's
\* arrival order: every surviving record contributes exactly one output, the
\* outputs are in the order their records were pulled, and an output is
\* appended in the very step that pulled its record.
C3_ArrivalOrder ==
    /\ [](\A c \in CALLS : C3_Subsequence(c))
    /\ [][\A c \in CALLS : C3_Unbuffered(c)]_vars

\* Three records pulled, the second skipped, the first and third returned.
C3_Witness ==
    /\ pc[1] = "done"
    /\ pulled[1] = 3 /\ OutIdx(1) = <<1, 3>>
    /\ Len(get_events_from_evtx(1)) = 2

\* ------------------------------------------------------------------- C4
\* C4 as the specification states it: no call surfaces a fault to its caller.
C4_NoFault == \A c \in CALLS : pc[c] # "raised"

\* ------------------------------------------------------------------- C5
\* What a scan by call c yields over its first n records alone.
ScanOf(c, n) == Take(lim[c], Ascending(Survivors(c, SetMin({n, cap[c]}))))

C5_Aborted(c) ==
    why[c] = "aborted" =>
        /\ pc[c] = "done"
        /\ disk[path[c]].tail = "raise"
        /\ pulled[c] = Len(disk[path[c]].records)
        /\ OutIdx(c) = ScanOf(c, pulled[c])
        /\ \A i \in 1..Len(out[c]) :
              out[c][i].ev = Examine(c, POOL[Source(c)[out[c][i].idx]]).ev

C5_Ended(c) ==
    why[c] = "aborted" => /\ out'[c] = out[c]
                          /\ pulled'[c] = pulled[c]
                          /\ pc'[c] = "done"

\* C5: when the decoder fails while record k is pulled, the stream ends
\* there without raising: the outputs are exactly those of the same scan
\* over records 1..k-1 alone, and nothing is yielded afterwards.
C5_DecoderFailure ==
    /\ [](\A c \in CALLS : C5_Aborted(c))
    /\ [][\A c \in CALLS : C5_Ended(c)]_vars

\* The decoder failed on the third pull, after one record was returned.
C5_Witness ==
    /\ why[1] = "aborted" /\ pulled[1] = 2 /\ Len(out[1]) = 1

\* ------------------------------------------------------------------- C6
\* A limit of call c normalizes to null.
NullLimit(c) ==
    \/ IsNone(normalize_int(args[c].results_limit, PyInt(RESULTS_LIMIT)))
    \/ IsNone(normalize_int(args[c].scan_limit, PyInt(SCAN_LIMIT)))

\* Zero, a negative number, text that is no number, and a float.
C6_REJECTED == {PyInt(0), PyInt(-1), PyStr(<<"t", "e", "n">>), PyFloat(1, <<"5">>)}

\* C6: when results_limit or scan_limit normalizes to null (zero, negative,
\* text that is no number, a value that is neither integer nor text), the
\* call ends normally with nothing yielded and no record pulled.
C6_NullLimit ==
    \A c \in CALLS :
        /\ args[c].results_limit \in C6_REJECTED => NullLimit(c)
        /\ args[c].scan_limit \in C6_REJECTED => NullLimit(c)
        /\ (NullLimit(c) /\ pc[c] \notin {"off", "called"})
              => /\ pc[c] = "done"
                 /\ out[c] = <<>>
                 /\ get_events_from_evtx(c) = <<>>
                 /\ pulled[c] = 0
                 /\ \A p \in DOMAIN disk : disk[p].records = <<>>

\* A call with scan_limit "ten" on an existing file has returned.
C6_Witness ==
    /\ args[1].scan_limit = PyStr(<<"t", "e", "n">>)
    /\ disk[PATH_X].kind = "evtx"
    /\ pc[1] = "done" /\ why[1] = "bad_limit"

\* ------------------------------------------------------------------- C9
\* The record a step of call c has just pulled.
JustPulled(c) == disk'[path[c]].records[pulled'[c]]

\* The step examines a record for call c.
Examines(c) == scanned'[c] # scanned[c]

\* Call c filters on time at most: no event id and no keyword is given.
TimeOnly(c) ==
    /\ IsNone(args[c].event_ids)
    /\ IsNone(args[c].contains) /\ IsNone(args[c].not_contains)

\* Instant t lies in the closed range of call c.
C9_InRange(c, t) ==
    /\ IsNone(start[c]) \/ t >= start[c].t
    /\ IsNone(end[c]) \/ t <= end[c].t

C9_Given(c) ==
    InLoop(c) => /\ IsNone(start[c]) <=> IsNone(args[c].start)
                 /\ IsNone(end[c]) <=> IsNone(args[c].end)

C9_Kept(c) ==
    (Examines(c) /\ TimeOnly(c)) =>
        (out'[c] # out[c] <=> /\ Timed(JustPulled(c))
                              /\ C9_InRange(c, EventTime(JustPulled(c)).t))

\* C9: the time filter is inclusive at both ends.  A bound is in force
\* exactly when it is given; a record whose time is determined is kept iff
\* its time is >= start (when start is given) and <= end (when end is
\* given), so a record whose time equals a bound is kept.
C9_InclusiveRange ==
    /\ [](\A c \in CALLS : C9_Given(c))
    /\ [][\A c \in CALLS : C9_Kept(c)]_vars

\* Both bounds are given, and a returned record has the time of the start
\* bound and another one the time of the end bound.
C9_Witness ==
    /\ TimeOnly(1) /\ ~IsNone(start[1]) /\ ~IsNone(end[1])
    /\ start[1].t < end[1].t
    /\ \E i \in 1..Len(out[1]) : EventTime(Source(1)[out[1][i].idx]).t = start[1].t
    /\ \E i \in 1..Len(out[1]) : EventTime(Source(1)[out[1][i].idx]).t = end[1].t

\* ------------------------------------------------------------------ C10
\* Call c filters on keywords at most.
KeywordsOnly(c) ==
    /\ IsNone(args[c].event_ids)
    /\ IsNone(args[c].start) /\ IsNone(args[c].end)

\* One of the terms is a substring of the text.
AnyIn(terms, text) == \E i \in 1..Len(terms) : StrIn(terms[i], text)

\* The payload of record r passes the keyword lists of call c.
C10_Passes(c, r) ==
    /\ contains_lc[c] = <<>> \/ AnyIn(contains_lc[c], StrLower(POOL[r].data.v))
    /\ not_contains_lc[c] = <<>> \/ ~AnyIn(not_contains_lc[c], StrLower(POOL[r].data.v))

C10_Lowercase(c) ==
    /\ \A i \in 1..Len(contains_lc[c]) : contains_lc[c][i] = StrLower(contains_lc[c][i])
    /\ \A i \in 1..Len(not_contains_lc[c]) :
          not_contains_lc[c][i] = StrLower(not_contains_lc[c][i])

C10_Kept(c) ==
    (Examines(c) /\ KeywordsOnly(c)) =>
        (out'[c] # out[c] <=> Timed(JustPulled(c)) /\ C10_Passes(c, JustPulled(c)))

\* C10: the keyword filter reads the lowercased payload text.  With include
\* terms a record is kept only if one of them is a substring of it; with
\* exclude terms a record is rejected if one of them is a substring of it;
\* the terms are lowercase too, so letter case never decides a match.
C10_KeywordFilter ==
    /\ [](\A c \in CALLS : C10_Lowercase(c))
    /\ [][\A c \in CALLS : C10_Kept(c)]_vars

\* The include term given as "Cmd" kept the record whose payload spells it
\* "Cmd", and the exclude term given as "ZZ" rejected the one that has "Zz".
C10_Witness ==
    /\ KeywordsOnly(1) /\ pc[1] = "done"
    /\ <<"c", "m", "d">> \in Range(contains_lc[1])
    /\ <<"z", "z">> \in Range(not_contains_lc[1])
    /\ \E i \in 1..Len(out[1]) :
          StrIn(<<"C", "m", "d">>, POOL[Source(1)[out[1][i].idx]].data.v)
    /\ \E i \in 1..scanned[1] :
          /\ i \notin Range(OutIdx(1))
          /\ StrIn(<<"Z", "z">>, POOL[Source(1)[i]].data.v)

\* ------------------------------------------------------------------- C7
\* The keywords the caller gave, normalized and lowercased.
Given(value) == normalize_str_list(value, TRUE)

\* The keywords of xs that are not among those of ys, in the order of xs.
Minus(xs, ys) == SelectSeq(xs, LAMBDA k : k \notin Range(ys))

SameKeywords(c) == Range(Given(args[c].contains)) = Range(Given(args[c].not_contains))

Finished(c) == pc[c] = "done" /\ why[c] \in {"exhausted", "limit", "aborted"}

C7_Effective(c) ==
    pc[c] = "loop" /\ pulled[c] = 0 =>
        /\ contains_lc[c] = Minus(Given(args[c].contains), Given(args[c].not_contains))
        /\ not_contains_lc[c] = Minus(Given(args[c].not_contains), Given(args[c].contains))
        /\ SameKeywords(c) => contains_lc[c] = <<>> /\ not_contains_lc[c] = <<>>

C7_Settled(c) ==
    pc[c] = "loop" => /\ contains_lc'[c] = contains_lc[c]
                      /\ not_contains_lc'[c] = not_contains_lc[c]

C7_SameOutput ==
    (Finished(1) /\ Finished(2) /\ SameKeywords(1))
        => /\ out[1] = out[2]
           /\ get_events_from_evtx(1) = get_events_from_evtx(2)

\* C7: a keyword that is in both contains and not_contains, whatever its
\* case and spelling before normalization, is in neither effective list; the
\* lists are settled before a record is pulled and stay as they are while
\* the records are scanned; when the two normalized sets are equal, the call
\* returns what the call without keywords returns.
C7_Overlap ==
    /\ [](C7_SameOutput /\ \A c \in CALLS : C7_Effective(c))
    /\ [][\A c \in CALLS : C7_Settled(c)]_vars

\* Include "'cmd, ZZ'" and exclude ["zz", "CMD"]: both calls have scanned
\* three records and returned the same two.
C7_Witness ==
    /\ args[1].contains # args[1].not_contains
    /\ SameKeywords(1) /\ Finished(1) /\ Finished(2)
    /\ scanned[1] = 3 /\ Len(out[1]) = 2 /\ out[1] = out[2]

\* ------------------------------------------------------------------- C8
\* The instant a parseable bound stands for.
Instant(bound) == normalize_timestamp(bound, PyNone).t

\* C8: for parseable bounds a > b, the call with start = a and end = b
\* returns the same sequence as the call with start = b and end = a.
C8_Swapped ==
    /\ (pc[1] \in {"loop", "done"} /\ pc[2] \in {"loop", "done"})
          => start[1] = start[2] /\ end[1] = end[2]
    /\ (pc[1] = "done" /\ pc[2] = "done")
          => /\ out[1] = out[2]
             /\ get_events_from_evtx(1) = get_events_from_evtx(2)

\* start = day 4 00:00 and end = "2 12:00.5 UTC": both calls have scanned
\* three records, rejected one on time and returned the same two.
C8_Witness ==
    /\ args[1].start = BOUND_DAY4 /\ args[1].end = BOUND_REC3
    /\ Instant(args[1].start) > Instant(args[1].end)
    /\ pc[1] = "done" /\ pc[2] = "done"
    /\ scanned[1] = 3 /\ Len(out[1]) = 2 /\ out[1] = out[2]
    /\ \E i \in 1..3 : Timed(Source(1)[i]) /\ i \notin Range(OutIdx(1))

\* ------------------------------------------------------------------ C11
\* Helper fn has returned to call c.
Returned(c, fn) == pc[c] = "done" /\ why[c] = "returned" /\ args[c].fn = fn

\* The top-level "Event" envelope of an event, or an empty mapping.
Envelope(data) ==
    IF data.k = "dict" /\ DictHas(data, KEY_EVENT) THEN DictGet(data, KEY_EVENT)
    ELSE PyDict(<<>>)

\* The position of the first occurrence of x in xs.
FirstAt(xs, x) == SetMin({i \in 1..Len(xs) : xs[i] = x})

C11_Entries(data, fields, items) ==
    /\ {items[i][1] : i \in 1..Len(items)} = Range(fields)
    /\ \A i, j \in 1..Len(items) :
          i < j => FirstAt(fields, items[i][1]) < FirstAt(fields, items[j][1])
    /\ \A i \in 1..Len(items) :
          LET at_root == get_dotted(data, items[i][1])
              in_envelope == get_dotted(Envelope(data), items[i][1])
          IN  /\ (IsNone(at_root) /\ IsNone(in_envelope)) => IsNone(items[i][2])
              /\ ~IsNone(at_root) => items[i][2] = at_root
              /\ (IsNone(at_root) /\ ~IsNone(in_envelope)) => items[i][2] = in_envelope

\* C11: what _project_fields returns is a mapping whose keys are exactly the
\* requested paths, verbatim and in the order they were first requested; the
\* value of a path is what it resolves to from the root of the event, else
\* from inside its "Event" envelope, else null.
C11_Projection ==
    \A c \in CALLS :
        Returned(c, "project_fields") =>
            /\ out[c][1].k = "dict"
            /\ C11_Entries(args[c].data, args[c].fields, out[c][1].v)

\* Record 1 projected on "System.EventID", found inside the envelope, and on
\* "Event.Nope", found nowhere.
C11_Witness ==
    /\ Returned(1, "project_fields")
    /\ args[1].data = PAYLOADS[1].val
    /\ args[1].fields = <<KEY_SYSTEM \o <<".">> \o KEY_EVENTID,
                          KEY_EVENT \o <<".", "N", "o", "p", "e">> >>
    /\ out[1][1] = PyDict(<< <<KEY_SYSTEM \o <<".">> \o KEY_EVENTID, PyInt(1)>>,
                             <<KEY_EVENT \o <<".", "N", "o", "p", "e">>, PyNone>> >>)

\* ------------------------------------------------------------------ C12
\* Everything call c owns: its position, its normalized filter spec, its
\* counters and its output.
Locals(c) ==
    <<pc[c], why[c], path[c], lim[c], cap[c], start[c], end[c], contains_lc[c],
      not_contains_lc[c], wanted_ids[c], fields_norm[c], returned[c], scanned[c],
      pulled[c], out[c]>>

FilterSpec(c) ==
    <<path[c], lim[c], cap[c], start[c], end[c], contains_lc[c], not_contains_lc[c],
      wanted_ids[c], fields_norm[c]>>

\* The arrival positions a call with arguments a returns when it runs alone
\* on the log at x (records 5, 1, 2) or at y (records 3, 4, 1).
C12_Alone(a) ==
    LET at_x == a.evtx_path = PyStr(PATH_X)
    IN  IF a.results_limit = PyInt(1) THEN (IF at_x THEN <<2>> ELSE <<1>>)
        ELSE IF a.scan_limit = PyInt(1) THEN (IF at_x THEN <<>> ELSE <<1>>)
        ELSE IF ~IsNone(a.contains) THEN (IF at_x THEN <<3>> ELSE <<>>)
        ELSE IF ~IsNone(a.event_ids) THEN (IF at_x THEN <<2>> ELSE <<1, 3>>)
        ELSE IF ~IsNone(a.start) THEN (IF at_x THEN <<3>> ELSE <<1>>)
        ELSE (IF at_x THEN <<2, 3>> ELSE <<1, 3>>)

C12_Independent(c) ==
    /\ Finished(c) =>
          /\ OutIdx(c) = C12_Alone(args[c])
          /\ \A i \in 1..Len(out[c]) :
                out[c][i].ev = Examine(c, POOL[Source(c)[out[c][i].idx]]).ev
    /\ pc[c] = "loop" =>
          /\ OutIdx(c) = Take(returned[c], C12_Alone(args[c]))
          /\ scanned[c] = pulled[c]

C12_Private(c) ==
    /\ Locals(c)' # Locals(c) => \A d \in CALLS \ {c} : Locals(d)' = Locals(d)
    /\ pc[c] \in {"loop", "done"} => FilterSpec(c)' = FilterSpec(c)

\* C12: two calls whose steps interleave in any order, on the same log or on
\* two logs, each return the sequence they return when run alone; a step of
\* one call changes nothing the other owns (position, counters, filter spec,
\* output), and a filter spec does not change once it is built.
C12_Interleaved ==
    /\ [](\A c \in CALLS : C12_Independent(c))
    /\ [][\A c \in CALLS : C12_Private(c)]_vars

\* Both calls read the log at x and both are in their loops: the first has
\* pulled two records and returned one, the second has pulled one.
C12_Witness ==
    /\ args[1] = [DEFAULT_ARGS EXCEPT !.evtx_path = PyStr(PATH_X)]
    /\ args[2] = [DEFAULT_ARGS EXCEPT !.evtx_path = PyStr(PATH_X),
                                      !.results_limit = PyInt(1)]
    /\ pc[1] = "loop" /\ pc[2] = "loop"
    /\ pulled[1] = 2 /\ pulled[2] = 1
    /\ OutIdx(1) = <<2>> /\ out[2] = <<>>

\* ------------------------------------------------------------------ C13
\* The texts that, once their quotes and blanks are removed, are an optionally
\* signed base-10 positive integer, each with the integer it denotes:
\* "`1`", "+7", " 12 ", '"3"' in single quotes.
C13_DENOTES ==
    {<<PyStr(<<BACKTICK, "1", BACKTICK>>), 1>>, <<PyStr(<<"+", "7">>), 7>>,
     <<PyStr(<<" ", "1", "2", " ">>), 12>>,
     <<PyStr(<<"'", DQUOTE, "3", DQUOTE, "'">>), 3>>}

C13_Expected(value, default) ==
    IF IsNone(value) THEN default
    ELSE IF value.k = "int" THEN (IF value.v > 0 THEN value ELSE PyNone)
    ELSE IF \E d \in C13_DENOTES : d[1] = value
         THEN PyInt((CHOOSE d \in C13_DENOTES : d[1] = value)[2])
    ELSE PyNone

\* C13: normalize_int returns the caller default for null, a positive integer
\* itself, the integer a quoted, optionally signed base-10 text denotes when
\* it is positive, and null for anything else: a boolean, zero, a negative
\* value, a text that is no integer, a value that is neither integer nor text.
C13_NormalizeInt ==
    \A c \in CALLS :
        Returned(c, "normalize_int") =>
            out[c][1] = C13_Expected(args[c].value, args[c].default)

\* ------------------------------------------------------------------ C14
\* C14: normalize_str_list applied to its own result, with the same lowercase
\* flag, returns that result unchanged: the same texts in the same order.
C14_Idempotent ==
    \A c \in CALLS :
        (pc[c] = "done" /\ why[c] = "returned_again") => out[c][2] = out[c][1]

\* ------------------------------------------------------------------ C15
\* The matching delimiter pairs, as the opening and the closing mark.
C15_PAIRS ==
    {<<DQUOTE, DQUOTE>>, <<"'", "'">>, <<BACKTICK, BACKTICK>>, <<"LDQUO", "RDQUO">>,
     <<"LSQUO", "RSQUO">>, <<"LAQUO", "RAQUO">>, <<"LSAQUO", "RSAQUO">>}

\* The ends of s are a matching delimiter pair.
C15_Wrapped(s) == Len(s) >= 2 /\ <<s[1], s[Len(s)]>> \in C15_PAIRS

C15_Blank(ch) == ch \in {" ", "\t", "\n", "\r"}

\* s has no blank at either end.
C15_Trimmed(s) == s = <<>> \/ (~C15_Blank(s[1]) /\ ~C15_Blank(s[Len(s)]))

\* s without the blanks at its ends.
C15_Trim(s) ==
    IF \A i \in 1..Len(s) : C15_Blank(s[i]) THEN <<>>
    ELSE SubSeq(s, SetMin({i \in 1..Len(s) : ~C15_Blank(s[i])}),
                   SetMax({i \in 1..Len(s) : ~C15_Blank(s[i])}))

C15_Result(c) == out[c][Len(out[c])]

\* The claim as stated: a text whose ends are no matching pair is returned
\* unchanged, and no result is wrapped in a matching pair.
C15_AsStated ==
    \A c \in CALLS :
        Returned(c, "normalize_wrapping_quotes") =>
            /\ ~C15_Wrapped(args[c].s) => C15_Result(c) = args[c].s
            /\ ~C15_Wrapped(C15_Result(c))

C15_Unwrapped(c) ==
    Returned(c, "normalize_wrapping_quotes") =>
        /\ ~C15_Wrapped(C15_Result(c))
        /\ C15_Trimmed(C15_Result(c))
        /\ ~C15_Wrapped(C15_Trim(args[c].s)) => C15_Result(c) = C15_Trim(args[c].s)
        /\ StrIn(C15_Result(c), args[c].s)
        /\ C15_Result(c) = normalize_wrapping_quotes(args[c].s)

C15_Layer(c) ==
    (pc[c] = "unwrapping" /\ out'[c] # out[c]) =>
        /\ C15_Wrapped(C15_Result(c))
        /\ Len(out'[c]) = Len(out[c]) + 1
        /\ Len(out'[c][Len(out'[c])]) <= Len(C15_Result(c)) - 2

\* C15: normalize_wrapping_quotes ends on every text, each pass of its loop
\* making the text at least two characters shorter; a text that, without the
\* blanks at its ends, is not wrapped in a matching pair is returned without
\* those blanks and otherwise unchanged; a text wrapped in any number of
\* nested, possibly different, matching pairs loses every layer, so the
\* result is never wrapped in a matching pair.
C15_FullyUnwrapped ==
    /\ [](\A c \in CALLS : C15_Unwrapped(c))
    /\ [][\A c \in CALLS : C15_Layer(c)]_vars

\* 'a' inside typographic double quotes: two different layers, both removed.
C15_Witness ==
    /\ Returned(1, "normalize_wrapping_quotes")
    /\ args[1].s = <<"LDQUO", "'", "a", "'", "RDQUO">>
    /\ out[1] = << <<"LDQUO", "'", "a", "'", "RDQUO">>, <<"'", "a", "'">>, <<"a">> >>

\* ------------------------------------------------------------------ C16
\* The time the payload of record r carries at
\* Event.System.TimeCreated.#attributes.SystemTime, and the time of the
\* record's own positional timestamp; None when there is none that parses.
C16_SystemTime(r) ==
    normalize_timestamp(get_dotted(Document(r), PATH_SYSTEM_TIME), PyNone)
C16_Positional(r) == normalize_timestamp(POOL[r].timestamp, PyNone)

\* The first of the two that is a time.
C16_Time(r) ==
    IF ~IsNone(C16_SystemTime(r)) THEN C16_SystemTime(r) ELSE C16_Positional(r)

C16_Determinable(r) == Parses(r) /\ ~IsNone(C16_Time(r))

C16_Emitted(c) ==
    \A i \in 1..Len(out[c]) : C16_Determinable(Source(c)[out[c][i].idx])

C16_Examined(c, r) ==
    /\ ~C16_Determinable(r) => out'[c] = out[c] /\ pc'[c] = "loop"
    /\ (TimeOnly(c) /\ C16_Determinable(r)) =>
          (out'[c] # out[c] <=> C9_InRange(c, C16_Time(r).t))

\* C16: a record whose time cannot be determined is never emitted, with or
\* without time bounds, and the scan goes on after it; the time of a record
\* is its SystemTime when the payload has one that parses, else its own
\* positional timestamp, so a record with a positional timestamp only is
\* emitted by a call without bounds and filtered on that time by a call
\* with bounds.
C16_UndeterminedTime ==
    /\ [](\A c \in CALLS : C16_Emitted(c))
    /\ [][\A c \in CALLS : Examines(c) => C16_Examined(c, JustPulled(c))]_vars

\* A call without constraints pulled the record that has no time, then the
\* record that has a positional timestamp only, and returned the second.
C16_Witness ==
    /\ NoConstraints(1) /\ InLoop(1)
    /\ Source(1) = <<4, 3>>
    /\ OutIdx(1) = <<2>>

\* ------------------------------------------------------------------ C17
\* A step of call c pulls a record.
C17_Pulls(c) == pc[c] = "loop" /\ pulled'[c] = pulled[c] + 1

C17_Counted(c) ==
    C17_Pulls(c) =>
        IF scanned[c] < cap[c] /\ returned[c] < lim[c]
        THEN /\ scanned'[c] = scanned[c] + 1
             /\ pc'[c] = "loop"
             /\ out'[c] = out[c] \/ Len(out'[c]) = Len(out[c]) + 1
        ELSE /\ scanned'[c] = scanned[c]
             /\ out'[c] = out[c]
             /\ pc'[c] = "done"

C17_Capped(c) ==
    InLoop(c) =>
        /\ scanned[c] <= cap[c]
        /\ pulled[c] \in {scanned[c], scanned[c] + 1}
        /\ pulled[c] = scanned[c] + 1 => pc[c] = "done" /\ why[c] = "limit"
        /\ \A i \in 1..Len(out[c]) : out[c][i].idx <= cap[c]

\* C17: a record pulled while neither limit is reached raises the scan count
\* by exactly one, whether it is then skipped (no payload, keyword, parse
\* failure, event id, time) or emitted, and the scan goes on; a record pulled
\* when a limit is reached is not counted and ends the scan.  So no record
\* after the first scan_limit ones is emitted, even when none of those
\* survived.
C17_ScanCount ==
    /\ [](\A c \in CALLS : C17_Capped(c))
    /\ [][\A c \in CALLS : C17_Counted(c)]_vars

\* Scan limit 1: the first record was skipped, and the second, which would
\* have been returned, ended the scan with nothing returned.
C17_Witness ==
    /\ InLoop(1) /\ cap[1] = 1 /\ lim[1] > 0
    /\ pulled[1] = 2 /\ scanned[1] = 1
    /\ out[1] = <<>>
    /\ Examine(1, POOL[Source(1)[2]]).verdict = "yield"

\* ---------------------------------------------------------------------
\* C18: _as_event_id and nested wrapper mappings
\* ---------------------------------------------------------------------

\* A mapping of one key is a wrapper around the value it holds.
C18_IsWrapper(v) == v.k = "dict" /\ Len(v.v) = 1

\* How many wrappers lie around a value, which keys they use, and what is
\* found inside the innermost one.
RECURSIVE C18_Depth(_)
C18_Depth(v) == IF C18_IsWrapper(v) THEN 1 + C18_Depth(v.v[1][2]) ELSE 0

RECURSIVE C18_Keys(_)
C18_Keys(v) ==
    IF C18_IsWrapper(v) THEN {v.v[1][1]} \cup C18_Keys(v.v[1][2]) ELSE {}

RECURSIVE C18_Core(_)
C18_Core(v) == IF C18_IsWrapper(v) THEN C18_Core(v.v[1][2]) ELSE v

\* What an unwrapped value stands for: 7 and "7" are the integer 7, True is
\* returned as it is, the rest is null.
C18_Plain(b) ==
    IF b.k = "int" THEN b
    ELSE IF b.k = "bool" THEN b
    ELSE IF b.k = "str" /\ b.v = <<"7">> THEN PyInt(7)
    ELSE PyNone

\* The two mappings of two keys, with the value held under the first of
\* "#text", "value", "Value" that is present.
C18_TWO_KEYS ==
    {<<PyDict(<< <<EVENT_ID_KEYS[2], PyStr(<<"7">>)>>,
                 <<EVENT_ID_KEYS[1], PyStr(<<"x">>)>> >>), PyNone>>,
     <<PyDict(<< <<<<"o", "t", "h", "e", "r">>, PyStr(<<"x">>)>>,
                 <<EVENT_ID_KEYS[3], PyInt(7)>> >>), PyInt(7)>>}

C18_OneOrNoWrapper(c) ==
    /\ Returned(c, "as_event_id")
    /\ args[c].value.k # "dict" \/ Len(args[c].value.v) < 2

\* C18 as stated: a plain value yields its integer, one wrapper with a known
\* key yields the integer inside, two or more wrappers yield null.
C18_AsStated ==
    \A c \in CALLS :
        C18_OneOrNoWrapper(c) =>
            out[c] = << IF C18_Depth(args[c].value) >= 2 THEN PyNone
                        ELSE IF C18_Keys(args[c].value) \subseteq Range(EVENT_ID_KEYS)
                             THEN C18_Plain(C18_Core(args[c].value))
                        ELSE PyNone >>

C18_Expected(value) ==
    IF \E t \in C18_TWO_KEYS : t[1] = value
    THEN (CHOOSE t \in C18_TWO_KEYS : t[1] = value)[2]
    ELSE IF C18_Keys(value) \subseteq Range(EVENT_ID_KEYS)
         THEN C18_Plain(C18_Core(value))
    ELSE PyNone

\* C18, amended: _as_event_id unwraps wrapper mappings level by level, however
\* deep: a value inside any number of mappings, each holding it under
\* "#text", "value" or "Value", yields what the value yields alone, and a
\* mapping on the way without such a key yields null.
C18_Unwrapped ==
    \A c \in CALLS :
        Returned(c, "as_event_id") => out[c] = <<C18_Expected(args[c].value)>>

\* {"value": {"#text": "7"}} was passed and 7 came back.
C18_Witness ==
    /\ Returned(1, "as_event_id")
    /\ args[1].value = PyDict(<< <<EVENT_ID_KEYS[2],
                                   PyDict(<< <<EVENT_ID_KEYS[1], PyStr(<<"7">>)>> >>)>> >>)
    /\ C18_Depth(args[1].value) = 2
    /\ out[1] = <<PyInt(7)>>

\* ---------------------------------------------------------------------
\* C19: a bound that is no timestamp
\* ---------------------------------------------------------------------

\* The instant a supplied bound stands for: the call time for "soon".
C19_Given(x) == IF x = BOUND_BOGUS THEN clock ELSE Instant(x)

\* The times of the records call c has returned.
C19_Times(c) == {EventTime(Source(c)[out[c][i].idx]).t : i \in 1..Len(out[c])}

C19_NotBefore(c) == ~IsNone(start[c]) /\ start[c].t = clock /\ \A t \in C19_Times(c) : t >= clock
C19_NotAfter(c) == ~IsNone(end[c]) /\ end[c].t = clock /\ \A t \in C19_Times(c) : t <= clock

\* C19 as stated: with a start that is no timestamp only records at or after
\* the call time are returned, with such an end only records at or before it.
C19_AsStated ==
    \A c \in CALLS :
        InLoop(c) => /\ args[c].start = BOUND_BOGUS => \A t \in C19_Times(c) : t >= clock
                     /\ args[c].end = BOUND_BOGUS => \A t \in C19_Times(c) : t <= clock

\* C19, amended: a bound that is no timestamp is replaced by the call time
\* before the two bounds are put in order.  With such a start only records at
\* or after the call time are returned unless an end before the call time is
\* supplied; then the call time is the end of the range.  With such an end
\* only records at or before the call time are returned unless a start after
\* the call time is supplied; then the call time is the start of the range.
C19_CallTimeBound ==
    \A c \in CALLS :
        InLoop(c) =>
            /\ args[c].start = BOUND_BOGUS =>
                  IF IsNone(args[c].end) \/ C19_Given(args[c].end) >= clock
                  THEN C19_NotBefore(c)
                  ELSE C19_NotAfter(c) /\ start[c].t = C19_Given(args[c].end)
            /\ args[c].end = BOUND_BOGUS =>
                  IF IsNone(args[c].start) \/ C19_Given(args[c].start) <= clock
                  THEN C19_NotAfter(c)
                  ELSE C19_NotBefore(c) /\ end[c].t = C19_Given(args[c].start)

\* start = "soon" and no end, called at day 3 00:00: a record of day 2 was
\* examined and not returned, a record of day 3 15:11 was returned.
C19_Witness ==
    /\ InLoop(1) /\ args[1].start = BOUND_BOGUS /\ IsNone(args[1].end)
    /\ clock = DateTicks(3)
    /\ \E i \in 1..scanned[1] :
          /\ Timed(Source(1)[i])
          /\ EventTime(Source(1)[i]).t < clock
          /\ i \notin Range(OutIdx(1))
    /\ \E t \in C19_Times(1) : t > clock

====
